---------------------------- MODULE Spec2Model ----------------------------
(***************************************************************************)
(* merkle_light: the Merkle tree of src/merkle/src/merkle.rs.              *)
(*                                                                         *)
(* A tree is two stores (leaves, top_half) of fixed-width elements, filled *)
(* by MerkleTree::build level by level, and read by gen_proof.  The model  *)
(* keeps the three Store implementations (VecStore, MmapStore,             *)
(* DiskMmapStore) apart, runs the chunk workers of one level of build in   *)
(* any interleaving, and turns a Rust panic (a failed assert!, an index    *)
(* out of range) into pc = "panic".                                        *)
(***************************************************************************)
EXTENDS Integers, Sequences, FiniteSets, TLC

(***************************************************************************)
(* Bounds of the model.                                                    *)
(***************************************************************************)
\* Largest number of leaves handed to a constructor.
MaxLeafs == 8

\* The items handed to a constructor are first, first + step, first + 2 step,
\* ... with first in 1..MaxItem and step in 0..MaxStep (step 0: all equal).
MaxItem == 2

MaxStep == 1

\* Largest number of bytes a byte slice holds after its last whole element.
MaxExtra == 1

\* Largest size a store used on its own is created with.
MaxSize == 2

\* A call that would take len() of a store used on its own past MaxLen is
\* not made.
MaxLen == 3
MaxWide == 12

(***************************************************************************)
(* Element: a value of byte_len bytes.  The trait leaves the width to the  *)
(* implementation ([u8; 32] in merkle.rs, [u8; 16] in the tests); the      *)
(* model instantiates it with a two-byte element, held as the number its   *)
(* bytes spell in big-endian order.                                        *)
(***************************************************************************)
byte_len == 2

RECURSIVE Pow(_, _)
Pow(b, e) == IF e = 0 THEN 1 ELSE b * Pow(b, e - 1)

\* Number of distinct elements: 256^byte_len.
Modulus == Pow(256, byte_len)

\* E::default(): the all-zero element.
Default == 0

\* el.as_ref(): the byte_len bytes of an element.
as_ref(e) == [k \in 1..byte_len |-> (e \div Pow(256, byte_len - k)) % 256]

RECURSIVE BytesValue(_)
BytesValue(bytes) ==
    IF bytes = <<>> THEN 0
    ELSE BytesValue(SubSeq(bytes, 1, Len(bytes) - 1)) * 256 + bytes[Len(bytes)]

\* E::from_slice(bytes): panics unless the slice is exactly byte_len long.
from_slice_ok(bytes) == Len(bytes) = byte_len
from_slice(bytes) == BytesValue(bytes)

\* The concatenation of the bytes of a sequence of elements.
RECURSIVE ElemsToBytes(_)
ElemsToBytes(els) ==
    IF els = <<>> THEN <<>> ELSE as_ref(Head(els)) \o ElemsToBytes(Tail(els))

\* buf.chunks_exact(byte_len).map(E::from_slice): a trailing partial chunk
\* is dropped.
RECURSIVE chunks_exact(_)
chunks_exact(bytes) ==
    IF Len(bytes) < byte_len THEN <<>>
    ELSE <<from_slice(SubSeq(bytes, 1, byte_len))>>
         \o chunks_exact(SubSeq(bytes, byte_len + 1, Len(bytes)))

(***************************************************************************)
(* Algorithm: the hash of a leaf and of a pair of children.  The trait is  *)
(* implemented outside merkle.rs; the model instantiates it with a hash    *)
(* that depends on each argument, on the order of the children and on the  *)
(* level.                                                                  *)
(***************************************************************************)
leaf(x) == (x * 167 + 13) % Modulus

node(l, r, h) == ((((l * 251 + r) % Modulus) * 241) + h * 239 + 1) % Modulus

(***************************************************************************)
(* usize arithmetic of next_pow2 and log2_pow2.                            *)
(***************************************************************************)
RECURSIVE BitOr(_, _)
BitOr(a, b) ==
    IF a = 0 THEN b
    ELSE IF b = 0 THEN a
    ELSE (IF a % 2 = 1 \/ b % 2 = 1 THEN 1 ELSE 0) + 2 * BitOr(a \div 2, b \div 2)

\* The number of values of a usize: 2^64 in the source, scaled to 2^16.
usize_range == 65536

\* a * b where the build does not check for overflow (the release profile):
\* the product wraps.
wrapping_mul(a, b) == (a * b) % usize_range

\* a * b overflows: a panic where the build checks for overflow (the debug
\* profile).
mul_overflows(a, b) == a * b >= usize_range

\* n >> k; every number of the model is below 2^31, so a shift by 31 or more
\* leaves 0.
Shr(n, k) == IF k >= 31 THEN 0 ELSE n \div Pow(2, k)

\* A next_pow2 without its n -= 1: a power of two is doubled.
next_pow2_no_decrement(n) ==
    LET n1 == BitOr(n, Shr(n, 1))
        n2 == BitOr(n1, Shr(n1, 2))
        n3 == BitOr(n2, Shr(n2, 4))
        n4 == BitOr(n3, Shr(n3, 8))
        n5 == BitOr(n4, Shr(n4, 16))
        n6 == BitOr(n5, Shr(n5, 32))
    IN  n6 + 1

\* next_pow2(n), for n >= 1 (n -= 1 underflows at 0).
next_pow2(n) ==
    LET n0 == n - 1
        n1 == BitOr(n0, Shr(n0, 1))
        n2 == BitOr(n1, Shr(n1, 2))
        n3 == BitOr(n2, Shr(n2, 4))
        n4 == BitOr(n3, Shr(n3, 8))
        n5 == BitOr(n4, Shr(n4, 16))
        n6 == BitOr(n5, Shr(n5, 32))
    IN  n6 + 1

\* n.trailing_zeros(), for n >= 1.
RECURSIVE trailing_zeros(_)
trailing_zeros(n) == IF n % 2 = 1 THEN 0 ELSE 1 + trailing_zeros(n \div 2)

\* A log2 that counts the bits of n, one more than its trailing zeros.
log2_pow2_bit_length(n) == trailing_zeros(n) + 1

log2_pow2(n) == trailing_zeros(n)

(***************************************************************************)
(* Store: one record for the three implementations.                        *)
(*   kind        "Vec" (VecStore), "Mmap" (MmapStore), "Disk"              *)
(*               (DiskMmapStore)                                           *)
(*   v           VecStore.0, the vector of elements                        *)
(*   store       the mapped bytes of MmapStore / DiskMmapStore,            *)
(*               zero-filled when created                                  *)
(*   len         the len field of MmapStore / DiskMmapStore                *)
(*   mapped      DiskMmapStore: store is Some(mmap); FALSE once offloaded  *)
(*   file        DiskMmapStore: the bytes of the file behind the mapping   *)
(*               (the mapping is shared: what is written through it is in  *)
(*               the file)                                                 *)
(*   store_size  DiskMmapStore: the cached length of the mapping           *)
(*   path, size  DiskMmapStore: the arguments of new_with_path ("" and     *)
(*               NoSize for a store made by new)                           *)
(* An operation that panics in the source has a predicate ..._ok; its      *)
(* result is only used where the predicate holds.  A read of a             *)
(* DiskMmapStore reloads an offloaded mapping: after_read is the store the *)
(* read leaves behind.                                                     *)
(***************************************************************************)
StoreKinds == {"Vec", "Mmap", "Disk"}

\* size: None
NoSize == -1

Zeros(n) == [k \in 1..n |-> 0]

\* Store::new(size)
Store_new(kind, size) ==
    [kind |-> kind, v |-> <<>>,
     store |-> IF kind = "Vec" THEN <<>> ELSE Zeros(byte_len * size),
     len |-> 0,
     mapped |-> TRUE,
     file |-> IF kind = "Disk" THEN Zeros(byte_len * size) ELSE <<>>,
     store_size |-> IF kind = "Disk" THEN byte_len * size ELSE 0,
     path |-> "",
     size |-> NoSize]

\* file.set_len(n): the file is cut, or extended with zeros.
set_len(f, n) == IF Len(f) >= n THEN SubSeq(f, 1, n) ELSE f \o Zeros(n - Len(f))

\* DiskMmapStore::new_with_path(size, path), f the bytes the file at path
\* holds when it is opened (none when it is created).
new_with_path(size, path, f) ==
    [kind |-> "Disk", v |-> <<>>,
     store |-> set_len(f, byte_len * size),
     len |-> 0,
     mapped |-> TRUE,
     file |-> set_len(f, byte_len * size),
     store_size |-> byte_len * size,
     path |-> path,
     size |-> size]

\* Store::len()
len(s) == IF s.kind = "Vec" THEN Len(s.v) ELSE s.len

\* Store::try_offload(): the value returned, and the store left behind.
try_offload_ret(s) == s.kind = "Disk" /\ s.path # ""

\* A try_offload that releases the mapping of a DiskMmapStore without
\* looking at its path.
try_offload_any_disk(s) ==
    IF s.kind = "Disk"
    THEN [s EXCEPT !.store = <<>>, !.mapped = FALSE]
    ELSE s

\* An offload that forgets how many elements the file holds.
try_offload_forgetting_len(s) ==
    IF s.kind = "Disk" /\ s.path # ""
    THEN [s EXCEPT !.store = <<>>, !.mapped = FALSE, !.len = 0]
    ELSE s

\* DiskMmapStore::try_offload(); the other stores keep the default, false.
try_offload(s) ==
    IF s.kind = "Disk" /\ s.path # ""
    THEN [s EXCEPT !.store = <<>>, !.mapped = FALSE]
    ELSE s

\* DiskMmapStore::reload_store(): new_with_path panics without a size or a
\* path to open.
reload_store_ok(s) == s.mapped \/ (s.size # NoSize /\ s.path # "")

\* A reload that maps a new, empty file of the right size.
reload_store_fresh_file(s) ==
    IF s.mapped THEN s
    ELSE [s EXCEPT !.store = new_with_path(s.size, s.path, <<>>).store,
                   !.mapped = TRUE]

reload_store(s) ==
    IF s.mapped THEN s
    ELSE [s EXCEPT !.store = new_with_path(s.size, s.path, s.file).store,
                   !.mapped = TRUE]

\* The second half of reload_store, on its own: the store is replaced by a
\* new mapping of the file, whatever it holds by now.
replace_store(s) ==
    [s EXCEPT !.store = new_with_path(s.size, s.path, s.file).store,
              !.mapped = TRUE]

\* The store a read that passed its assertions leaves behind.
after_read(s) == IF s.kind = "Disk" THEN reload_store(s) ELSE s

\* self.store[start..end].copy_from_slice(slice), on 0-based byte offsets.
copy_from_slice_ok(mem, start, end, slice) ==
    /\ start <= end
    /\ end <= Len(mem)
    /\ Len(slice) = end - start

\* A copy that stops one byte short of end.
copy_from_slice_short(mem, start, end, slice) ==
    [k \in 1..Len(mem) |-> IF k > start /\ k < end THEN slice[k - start] ELSE mem[k]]

copy_from_slice(mem, start, end, slice) ==
    [k \in 1..Len(mem) |-> IF k > start /\ k <= end THEN slice[k - start] ELSE mem[k]]

\* DiskMmapStore::store_copy_from_slice(start, end, slice)
store_copy_from_slice_ok(s, start, end, slice) ==
    /\ reload_store_ok(s)
    /\ copy_from_slice_ok(reload_store(s).store, start, end, slice)

store_copy_from_slice(s, start, end, slice) ==
    LET r == reload_store(s)
        m == copy_from_slice(r.store, start, end, slice)
    IN  [r EXCEPT !.store = m, !.file = m]

\* DiskMmapStore::store_read_range(start, end), and the bytes store_read_into
\* copies.
store_read_range_ok(s, start, end) ==
    /\ reload_store_ok(s)
    /\ start <= end
    /\ end <= Len(reload_store(s).store)

store_read_range(s, start, end) == SubSeq(reload_store(s).store, start + 1, end)

\* Vec::resize(n, E::default()) when the vector is shorter than n.
resize(v, n) == IF Len(v) < n THEN v \o [k \in 1..(n - Len(v)) |-> Default] ELSE v

\* Store::write_at(el, i)
write_at_ok(s, el, i) ==
    CASE s.kind = "Vec" -> TRUE
      [] s.kind = "Mmap" ->
            copy_from_slice_ok(s.store, i * byte_len, (i + 1) * byte_len, as_ref(el))
      [] s.kind = "Disk" ->
            store_copy_from_slice_ok(s, i * byte_len, (i + 1) * byte_len, as_ref(el))

write_at(s, el, i) ==
    CASE s.kind = "Vec" ->
            [s EXCEPT !.v = [resize(s.v, i + 1) EXCEPT ![i + 1] = el]]
      [] s.kind = "Mmap" ->
            [s EXCEPT !.store = copy_from_slice(s.store, i * byte_len,
                                                (i + 1) * byte_len, as_ref(el)),
                      !.len = s.len + 1]
      [] s.kind = "Disk" ->
            [store_copy_from_slice(s, i * byte_len, (i + 1) * byte_len, as_ref(el))
                EXCEPT !.len = s.len + 1]

\* A push that asserts room for two more elements.
push_ok_strict(s, el) ==
    CASE s.kind = "Vec" -> TRUE
      [] s.kind = "Mmap" -> /\ (s.len + 2) * byte_len <= Len(s.store)
                            /\ write_at_ok(s, el, s.len)
      [] s.kind = "Disk" -> /\ (s.len + 2) * byte_len <= s.store_size
                            /\ write_at_ok(s, el, s.len)

\* Store::push(el)
push_ok(s, el) ==
    CASE s.kind = "Vec" -> TRUE
      [] s.kind = "Mmap" -> /\ (s.len + 1) * byte_len <= Len(s.store)
                            /\ write_at_ok(s, el, s.len)
      [] s.kind = "Disk" -> /\ (s.len + 1) * byte_len <= s.store_size
                            /\ write_at_ok(s, el, s.len)

push(s, el) ==
    IF s.kind = "Vec"
    THEN [s EXCEPT !.v = Append(s.v, el)]
    ELSE write_at(s, el, s.len)

\* Store::write_range(buf, start): start counts elements, buf is bytes.
\* VecStore and MmapStore assert that buf is a whole number of elements,
\* DiskMmapStore does not.
write_range_ok(s, buf, start) ==
    CASE s.kind = "Vec" -> Len(buf) % byte_len = 0
      [] s.kind = "Mmap" ->
            /\ Len(buf) % byte_len = 0
            /\ copy_from_slice_ok(s.store, start * byte_len,
                                  start * byte_len + Len(buf), buf)
      [] s.kind = "Disk" ->
            store_copy_from_slice_ok(s, start * byte_len,
                                     start * byte_len + Len(buf), buf)

\* A write_range whose mapped variants add the bytes written to len, not the
\* elements.
write_range_len_in_bytes(s, buf, start) ==
    CASE s.kind = "Vec" ->
            LET num_elem == Len(buf) \div byte_len
                w == resize(s.v, start + num_elem)
                els == chunks_exact(buf)
            IN  [s EXCEPT !.v = SubSeq(w, 1, start) \o els
                                \o SubSeq(w, start + num_elem + 1, Len(w))]
      [] s.kind = "Mmap" ->
            [s EXCEPT !.store = copy_from_slice(s.store, start * byte_len,
                                                start * byte_len + Len(buf), buf),
                      !.len = s.len + Len(buf)]
      [] s.kind = "Disk" ->
            [store_copy_from_slice(s, start * byte_len,
                                   start * byte_len + Len(buf), buf)
                EXCEPT !.len = s.len + Len(buf)]

write_range(s, buf, start) ==
    CASE s.kind = "Vec" ->
            LET num_elem == Len(buf) \div byte_len
                w == resize(s.v, start + num_elem)
                els == chunks_exact(buf)
            IN  [s EXCEPT !.v = SubSeq(w, 1, start) \o els
                                \o SubSeq(w, start + num_elem + 1, Len(w))]
      [] s.kind = "Mmap" ->
            [s EXCEPT !.store = copy_from_slice(s.store, start * byte_len,
                                                start * byte_len + Len(buf), buf),
                      !.len = s.len + (Len(buf) \div byte_len)]
      [] s.kind = "Disk" ->
            [store_copy_from_slice(s, start * byte_len,
                                   start * byte_len + Len(buf), buf)
                EXCEPT !.len = s.len + (Len(buf) \div byte_len)]

\* Store::new_from_slice(size, data): VecStore panics at size - v.len() when
\* the slice holds more than size elements, the mapped variants assert that
\* the slice is a whole number of elements.
new_from_slice_ok(kind, size, bytes) ==
    CASE kind = "Vec" -> Len(chunks_exact(bytes)) <= size
      [] kind = "Mmap" ->
            /\ Len(bytes) % byte_len = 0
            /\ copy_from_slice_ok(Store_new(kind, size).store, 0, Len(bytes), bytes)
      [] kind = "Disk" ->
            /\ Len(bytes) % byte_len = 0
            /\ store_copy_from_slice_ok(Store_new(kind, size), 0, Len(bytes), bytes)

\* A new_from_slice that hashes each element of the slice before storing it.
new_from_slice_hashing(kind, size, bytes) ==
    LET hashed == ElemsToBytes([k \in 1..Len(chunks_exact(bytes)) |->
                                  leaf(chunks_exact(bytes)[k])])
    IN  CASE kind = "Vec" -> [Store_new(kind, size) EXCEPT !.v = chunks_exact(hashed)]
          [] kind = "Mmap" ->
                [Store_new(kind, size) EXCEPT
                    !.store = copy_from_slice(@, 0, Len(hashed), hashed),
                    !.len = Len(hashed) \div byte_len]
          [] kind = "Disk" ->
                [store_copy_from_slice(Store_new(kind, size), 0, Len(hashed), hashed)
                    EXCEPT !.len = Len(hashed) \div byte_len]

new_from_slice(kind, size, bytes) ==
    CASE kind = "Vec" -> [Store_new(kind, size) EXCEPT !.v = chunks_exact(bytes)]
      [] kind = "Mmap" ->
            [Store_new(kind, size) EXCEPT
                !.store = copy_from_slice(@, 0, Len(bytes), bytes),
                !.len = Len(bytes) \div byte_len]
      [] kind = "Disk" ->
            [store_copy_from_slice(Store_new(kind, size), 0, Len(bytes), bytes)
                EXCEPT !.len = Len(bytes) \div byte_len]

\* Store::read_at(i)
read_at_ok(s, i) ==
    LET start == wrapping_mul(i, byte_len)
        end == wrapping_mul(i + 1, byte_len)
        l == wrapping_mul(s.len, byte_len)
    IN  CASE s.kind = "Vec" -> i < Len(s.v)
          [] s.kind = "Mmap" ->
                /\ start < l
                /\ end <= l
                /\ start <= end
                /\ end <= Len(s.store)
          [] s.kind = "Disk" ->
                /\ start < l
                /\ end <= l
                /\ store_read_range_ok(s, start, end)

read_at(s, i) ==
    LET start == wrapping_mul(i, byte_len)
        end == wrapping_mul(i + 1, byte_len)
    IN  CASE s.kind = "Vec" -> s.v[i + 1]
          [] s.kind = "Mmap" -> from_slice(SubSeq(s.store, start + 1, end))
          [] s.kind = "Disk" -> from_slice(store_read_range(s, start, end))

\* Store::read_into(i, buf): the bytes left in buf.
read_into_ok(s, i) == read_at_ok(s, i)

read_into(s, i) ==
    LET start == wrapping_mul(i, byte_len)
        end == wrapping_mul(i + 1, byte_len)
    IN  CASE s.kind = "Vec" -> as_ref(s.v[i + 1])
          [] s.kind = "Mmap" -> SubSeq(s.store, start + 1, end)
          [] s.kind = "Disk" -> store_read_range(s, start, end)

\* Store::read_range(lo..hi)
read_range_ok(s, lo, hi) ==
    LET start == wrapping_mul(lo, byte_len)
        end == wrapping_mul(hi, byte_len)
        l == wrapping_mul(s.len, byte_len)
    IN  CASE s.kind = "Vec" -> lo <= hi /\ hi <= Len(s.v)
          [] s.kind = "Mmap" ->
                /\ start < l
                /\ end <= l
                /\ start <= end
                /\ end <= Len(s.store)
          [] s.kind = "Disk" ->
                /\ start < l
                /\ end <= l
                /\ store_read_range_ok(s, start, end)

read_range(s, lo, hi) ==
    LET start == wrapping_mul(lo, byte_len)
        end == wrapping_mul(hi, byte_len)
    IN  CASE s.kind = "Vec" -> SubSeq(s.v, lo + 1, hi)
          [] s.kind = "Mmap" -> chunks_exact(SubSeq(s.store, start + 1, end))
          [] s.kind = "Disk" -> chunks_exact(store_read_range(s, start, end))

\* The offsets of a read of the elements lo..hi of s do not fit a usize.
read_overflows(s, lo, hi) ==
    s.kind # "Vec" /\ (mul_overflows(lo, byte_len) \/ mul_overflows(hi, byte_len))

\* Store::is_empty()
is_empty(s) == len(s) = 0

(***************************************************************************)
(* MerkleTree: the operations that read a tree (leaves, top_half).         *)
(***************************************************************************)
\* MerkleTree::len()
Tree_len(lv, th) == len(lv) + len(th)

\* MerkleTree::read_at(i)
Tree_read_at_ok(lv, th, i) ==
    IF i < len(lv) THEN read_at_ok(lv, i) ELSE read_at_ok(th, i - len(lv))

Tree_read_at(lv, th, i) ==
    IF i < len(lv) THEN read_at(lv, i) ELSE read_at(th, i - len(lv))

\* The offsets of the store read made by read_at(i) or read_into(i) do not
\* fit a usize.
Tree_read_overflows(lv, th, i) ==
    IF i < len(lv) THEN read_overflows(lv, i, i + 1)
    ELSE read_overflows(th, i - len(lv), i - len(lv) + 1)

\* The two stores after a read_at(i) or read_into(i) that did not panic.
Tree_after_read(lv, th, i) ==
    IF i < len(lv) THEN [leaves |-> after_read(lv), top_half |-> th]
    ELSE [leaves |-> lv, top_half |-> after_read(th)]

\* MerkleTree::read_into(pos, buf): the bytes left in buf.
Tree_read_into_ok(lv, th, pos) ==
    IF pos < len(lv) THEN read_into_ok(lv, pos) ELSE read_into_ok(th, pos - len(lv))

Tree_read_into(lv, th, pos) ==
    IF pos < len(lv) THEN read_into(lv, pos) ELSE read_into(th, pos - len(lv))

\* MerkleTree::read_range(start, end): one store's read_range when the range
\* lies in one store, the two parts joined when it straddles them.
Tree_read_range_ok(lv, th, start, end) ==
    /\ start <= end
    /\ IF end <= len(lv) THEN read_range_ok(lv, start, end)
       ELSE IF start >= len(lv)
            THEN read_range_ok(th, start - len(lv), end - len(lv))
            ELSE /\ read_range_ok(lv, start, len(lv))
                 /\ read_range_ok(th, 0, end - len(lv))

Tree_read_range(lv, th, start, end) ==
    IF end <= len(lv) THEN read_range(lv, start, end)
    ELSE IF start >= len(lv)
         THEN read_range(th, start - len(lv), end - len(lv))
         ELSE read_range(lv, start, len(lv)) \o read_range(th, 0, end - len(lv))

\* The two stores after a read_range(start, end) that did not panic.
Tree_after_read_range(lv, th, start, end) ==
    [leaves |-> IF start < len(lv) \/ end <= len(lv) THEN after_read(lv) ELSE lv,
     top_half |-> IF end > len(lv) THEN after_read(th) ELSE th]

\* MerkleTree::try_offload_store(): && calls top_half.try_offload() only
\* when leaves.try_offload() returned true.
try_offload_store_ret(lv, th) == try_offload_ret(lv) /\ try_offload_ret(th)

try_offload_store(lv, th) ==
    [leaves |-> try_offload(lv),
     top_half |-> IF try_offload_ret(lv) THEN try_offload(th) ELSE th]

\* A width that is rounded up to even before it is halved.
next_width_round_first(width) ==
    Shr(IF width % 2 = 1 THEN width + 1 ELSE width, 1)

\* The width of the next level in gen_proof: width >>= 1, made even.
next_width(width) ==
    LET w == Shr(width, 1) IN IF w % 2 = 1 THEN w + 1 ELSE w

\* A gen_proof that starts with leafs as it is, odd or not.
first_width_unpadded(n) == n

\* The width gen_proof starts with: leafs, made even.
first_width(n) == IF n % 2 = 1 THEN n + 1 ELSE n

\* A gen_proof that takes the right neighbour whatever the parity of j.
sibling_index_right(base, j) == base + j + 1

\* A gen_proof that always takes the node to the left.
sibling_index_left(base, j) == base + j - 1

\* The global index of the sibling of node j of the level that starts at base.
sibling_index(base, j) == IF j % 2 = 0 THEN base + j + 1 ELSE base + j - 1

\* A gen_proof whose path bit is true for the right child.
is_left_inverted(j) == j % 2 = 1

\* The path bit pushed for node j: j is a left child.
is_left(j) == j % 2 = 0

\* The loop of gen_proof; ok turns FALSE when a read_at panics.  lv and th
\* are the stores as the reads so far have left them, trace the values of
\* base, j and width each time the loop condition is evaluated.
RECURSIVE gen_proof_loop(_, _, _, _, _, _)
gen_proof_loop(lv, th, base, j, width, acc) ==
    IF ~acc.ok \/ ~(base + 1 < Tree_len(lv, th))
    THEN [acc EXCEPT !.lv = lv, !.th = th,
                     !.trace = Append(@, [base |-> base, j |-> j, width |-> width])]
    ELSE LET sib == sibling_index(base, j)
         IN  IF sib < 0 \/ ~Tree_read_at_ok(lv, th, sib)
             THEN [acc EXCEPT !.ok = FALSE, !.lv = lv, !.th = th,
                      !.trace = Append(@, [base |-> base, j |-> j, width |-> width])]
             ELSE gen_proof_loop(Tree_after_read(lv, th, sib).leaves,
                      Tree_after_read(lv, th, sib).top_half,
                      base + width, Shr(j, 1), next_width(width),
                      [acc EXCEPT !.lemma = Append(@, Tree_read_at(lv, th, sib)),
                                  !.path = Append(@, is_left(j)),
                                  !.trace = Append(@, [base |-> base, j |-> j,
                                                       width |-> width])])

\* MerkleTree::gen_proof(i), before its two debug assertions:
\* [ok, lemma, path], and the stores [lv, th] it leaves behind.
gen_proof(lv, th, n, rt, i) ==
    IF ~(i < n) \/ ~Tree_read_at_ok(lv, th, i)
    THEN [ok |-> FALSE, lemma |-> <<>>, path |-> <<>>, lv |-> lv, th |-> th,
          trace |-> <<>>]
    ELSE LET width == first_width(n)
             acc == gen_proof_loop(Tree_after_read(lv, th, i).leaves,
                        Tree_after_read(lv, th, i).top_half, 0, i, width,
                        [ok |-> TRUE, lemma |-> <<Tree_read_at(lv, th, i)>>,
                         path |-> <<>>, lv |-> lv, th |-> th, trace |-> <<>>])
         IN  [acc EXCEPT !.lemma = IF acc.ok THEN Append(@, rt) ELSE @]

(***************************************************************************)
(* Proof::validate (proof.rs): fold the lemma from the leaf to the root.   *)
(***************************************************************************)
RECURSIVE validate_fold(_, _, _, _)
validate_fold(lemma, path, i, h) ==
    IF i >= Len(lemma) - 1 THEN h
    ELSE validate_fold(lemma, path, i + 1,
             IF path[i] THEN node(h, lemma[i + 1], i - 1)
                        ELSE node(lemma[i + 1], h, i - 1))

validate(lemma, path) ==
    /\ Len(lemma) >= 2
    /\ Len(path) >= Len(lemma) - 2
    /\ validate_fold(lemma, path, 1, lemma[1]) = lemma[Len(lemma)]

(***************************************************************************)
(* MerkleTree::build: the steps of one level.                              *)
(***************************************************************************)
\* The pairs hashed and written by one worker: 1024 in the source, scaled
\* to 4 so that a level of the bounded trees splits into several chunks, the
\* last of them shorter.
chunk_size == 4

Min(a, b) == IF a < b THEN a ELSE b

\* (read_start..read_start + width).step_by(chunk_size)
chunk_indexes(rs, w) ==
    {c \in rs..(rs + w - 1) : (c - rs) % chunk_size = 0}

\* A worker that always takes chunk_size nodes.
chunk_len_full(c, rs, w) == chunk_size

\* The chunk_size a worker shadows: the last chunk may be shorter.
chunk_len(c, rs, w) == Min(chunk_size, rs + w - c)

\* Odd number of nodes, duplicate last: read_at(len - 1), then push.
duplicate_last_ok(s) ==
    /\ len(s) >= 1
    /\ read_at_ok(s, len(s) - 1)
    /\ push_ok(s, read_at(s, len(s) - 1))

\* A duplication that copies the first node of the store instead of the last.
duplicate_first(s) == push(s, read_at(s, 0))

duplicate_last(s) == push(s, read_at(s, len(s) - 1))

\* chunk_nodes.chunks(2).map(|pair| node(pair[0], pair[1], level)): a last
\* chunk of one node panics at pair[1].
hash_pairs_ok(nodes) == Len(nodes) % 2 = 0

\* A build that hands node the level of the parent instead of the child's.
RECURSIVE hash_pairs_parent_level(_, _)
hash_pairs_parent_level(nodes, lvl) ==
    IF Len(nodes) < 2 THEN <<>>
    ELSE <<node(nodes[1], nodes[2], lvl + 1)>>
         \o hash_pairs_parent_level(SubSeq(nodes, 3, Len(nodes)), lvl)

RECURSIVE hash_pairs(_, _)
hash_pairs(nodes, lvl) ==
    IF Len(nodes) < 2 THEN <<>>
    ELSE <<node(nodes[1], nodes[2], lvl)>>
         \o hash_pairs(SubSeq(nodes, 3, Len(nodes)), lvl)

\* The root build caches: the last element of top_half.
root_of_ok(th) == len(th) >= 1 /\ read_at_ok(th, len(th) - 1)

\* A build that caches the first element of top_half as the root.
root_of_first(th) == read_at(th, 0)

root_of(th) == read_at(th, len(th) - 1)

\* A write_start that leaves one slot free after the level read.
write_start_after_gap(rs, w) == rs + w + 1

\* A write_start that skips the width of the level read twice.
write_start_two_widths_on(rs, w) == rs + w + w

\* write_start of a level above the leaves: levels are contiguous in
\* top_half, the next one starts width nodes after read_start.
write_start_of(rs, w) == rs + w

\* A write position that advances by the nodes read, not by the nodes
\* written.
write_pos_unhalved(c, rs, ws) == ws + (c - rs)

\* The position, in the store written, of the first node a worker writes.
write_pos(c, rs, ws) == ws + ((c - rs) \div 2)

(***************************************************************************)
(* State.                                                                  *)
(*   kind, data        the store implementation K and the items handed to  *)
(*                     the constructor                                     *)
(*   pc                "start"  nothing constructed yet                    *)
(*                     "loop"   build, at the head of its while loop       *)
(*                     "chunks" build, the workers of one level running    *)
(*                     "done"   the tree is constructed                    *)
(*                     "panic"  a panic unwound the call                   *)
(*   leaves, top_half  the two stores                                      *)
(*   leafs, height, root   the fields of MerkleTree (height is the         *)
(*                     argument of build until the tree is constructed)    *)
(*   level, width, level_node_index, read_start, write_start               *)
(*                     the locals of build                                 *)
(*   workers           per chunk index of the level: st ("todo", "read",   *)
(*                     "done") and the chunk_nodes read                    *)
(*   proof             the result of the last gen_proof: its argument i,   *)
(*                     lemma and path                                      *)
(*   written           per store of the tree, how many times build and the *)
(*                     constructor have written each slot so far (a        *)
(*                     history of the writes, read by no action)           *)
(*   slice             the bytes handed to from_byte_slice                 *)
(*   ret               the last call made on the constructed tree or on    *)
(*                     self_store: op, its argument, ok (FALSE: it         *)
(*                     panicked) and the value returned                    *)
(*   self_store        a store used on its own, through the Store trait    *)
(*   threads           the calls in progress on self_store, one per        *)
(*                     thread, each at its position in the call            *)
(***************************************************************************)
VARIABLES kind, data, pc, leaves, top_half, leafs, height, root,
          level, width, level_node_index, read_start, write_start,
          workers, proof, written, slice, ret, self_store, threads

vars == <<kind, data, pc, leaves, top_half, leafs, height, root,
          level, width, level_node_index, read_start, write_start,
          workers, proof, written, slice, ret, self_store, threads>>

tree_vars == <<leaves, top_half, leafs, height, root, written>>

api_vars == <<slice, ret, self_store, threads>>

build_vars == <<level, width, level_node_index, read_start, write_start, workers>>

NoProof == [i |-> -1, lemma |-> <<>>, path |-> <<>>]

NoStore == Store_new("Vec", 0)

NoWrites == [leaves |-> <<>>, top_half |-> <<>>]

NoRet == [op |-> "", arg |-> <<>>, ok |-> TRUE, val |-> <<>>]

\* The write counts after one more write of the n slots from start on.
mark(counts, start, n) ==
    [k \in 1..(IF Len(counts) > start + n THEN Len(counts) ELSE start + n) |->
        (IF k <= Len(counts) THEN counts[k] ELSE 0)
        + (IF k > start /\ k <= start + n THEN 1 ELSE 0)]

Inputs ==
    {[i \in 1..n |-> first + (i - 1) * step] :
        n \in 0..MaxLeafs, first \in 1..MaxItem, step \in 0..MaxStep}

InitOf(inputs) ==
    /\ kind \in StoreKinds
    /\ data \in inputs
    /\ pc = "start"
    /\ leaves = NoStore
    /\ top_half = NoStore
    /\ leafs = 0
    /\ height = 0
    /\ root = Default
    /\ level = 0
    /\ width = 0
    /\ level_node_index = 0
    /\ read_start = 0
    /\ write_start = 0
    /\ workers = <<>>
    /\ proof = NoProof
    /\ written = NoWrites
    /\ slice = <<>>
    /\ ret = NoRet
    /\ self_store = NoStore
    /\ threads = <<>>

Init == InitOf(Inputs)

Panic == pc' = "panic"

\* An assertion that lets a single leaf through.
enough_leafs_one(n) == n > 0

\* assert!(leafs > 1)
enough_leafs(n) == n > 1

\* leaves.push(a.leaf(item)) for every item, in iteration order.
RECURSIVE push_leaves_ok(_, _)
push_leaves_ok(s, items) ==
    \/ items = <<>>
    \/ /\ push_ok(s, leaf(Head(items)))
       /\ push_leaves_ok(push(s, leaf(Head(items))), Tail(items))

\* A constructor that pushes the hashed items from the last to the first.
RECURSIVE push_leaves_back_to_front(_, _)
push_leaves_back_to_front(s, items) ==
    IF items = <<>> THEN s
    ELSE push_leaves_back_to_front(push(s, leaf(items[Len(items)])),
                                   SubSeq(items, 1, Len(items) - 1))

RECURSIVE push_leaves(_, _)
push_leaves(s, items) ==
    IF items = <<>> THEN s
    ELSE push_leaves(push(s, leaf(Head(items))), Tail(items))

\* MerkleTree::from_iter, up to the first iteration of build's loop.
from_iter(items) ==
    /\ pc = "start"
    /\ LET n == Len(items)
           pow == next_pow2(n)
       IN  IF enough_leafs(n) /\ push_leaves_ok(Store_new(kind, pow), items)
           THEN /\ leaves' = push_leaves(Store_new(kind, pow), items)
                /\ top_half' = Store_new(kind, pow)
                /\ leafs' = n
                /\ height' = log2_pow2(2 * pow)
                /\ level' = 0
                /\ width' = n
                /\ level_node_index' = 0
                /\ pc' = "loop"
                /\ written' = [written EXCEPT !.leaves = mark(@, 0, n)]
                /\ UNCHANGED <<kind, data, api_vars, root, read_start,
                               write_start, workers, proof>>
           ELSE /\ Panic
                /\ UNCHANGED <<kind, data, api_vars, tree_vars, build_vars, proof>>

FromIter == from_iter(data)

\* The items of data, each hashed by Algorithm.leaf.
Hashed(items) == [k \in 1..Len(items) |-> leaf(items[k])]

\* The byte slices handed to from_byte_slice: the bytes of the items of
\* data, or of their leaf hashes, with up to MaxExtra bytes of a further
\* element after them.
ByteSlices ==
    {ElemsToBytes(els) \o SubSeq(as_ref(leaf(1)), 1, extra) :
        els \in {data, Hashed(data)}, extra \in 0..MaxExtra}

\* MerkleTree::from_byte_slice(leafs), up to the first iteration of build's
\* loop.
FromByteSlice ==
    /\ pc = "start"
    /\ \E bytes \in ByteSlices :
          LET leafs_count == Len(bytes) \div byte_len
              pow == next_pow2(leafs_count)
          IN  /\ slice' = bytes
              /\ IF /\ Len(bytes) % byte_len = 0
                    /\ leafs_count >= 1
                    /\ new_from_slice_ok(kind, pow, bytes)
                    /\ enough_leafs(leafs_count)
                 THEN /\ leaves' = new_from_slice(kind, pow, bytes)
                      /\ top_half' = Store_new(kind, pow)
                      /\ leafs' = leafs_count
                      /\ height' = log2_pow2(2 * pow)
                      /\ level' = 0
                      /\ width' = leafs_count
                      /\ level_node_index' = 0
                      /\ pc' = "loop"
                      /\ written' = [written EXCEPT !.leaves = mark(@, 0, leafs_count)]
                      /\ UNCHANGED <<kind, data, ret, self_store, threads, root,
                                     read_start, write_start, workers, proof>>
                 ELSE /\ Panic
                      /\ UNCHANGED <<kind, data, ret, self_store, threads,
                                     tree_vars, build_vars, proof>>

\* build: width is odd, the last node of the level is duplicated.
Duplicate ==
    /\ pc = "loop"
    /\ width > 1
    /\ width % 2 = 1
    /\ LET active_store == IF level = 0 THEN leaves ELSE top_half
       IN  IF duplicate_last_ok(active_store)
           THEN /\ IF level = 0
                   THEN /\ leaves' = duplicate_last(leaves)
                        /\ written' = [written EXCEPT
                                           !.leaves = mark(@, len(leaves), 1)]
                        /\ UNCHANGED top_half
                   ELSE /\ top_half' = duplicate_last(top_half)
                        /\ written' = [written EXCEPT
                                           !.top_half = mark(@, len(top_half), 1)]
                        /\ UNCHANGED leaves
                /\ width' = width + 1
                /\ UNCHANGED <<kind, data, api_vars, pc, leafs, height, root, level,
                               level_node_index, read_start, write_start,
                               workers, proof>>
           ELSE /\ Panic
                /\ UNCHANGED <<kind, data, api_vars, tree_vars, build_vars, proof>>

\* build: read_start and write_start of the level, and one worker per chunk.
Dispatch ==
    /\ pc = "loop"
    /\ width > 1
    /\ width % 2 = 0
    /\ LET rs == IF level = 0 THEN 0 ELSE level_node_index - len(leaves)
           ws == IF level = 0 THEN 0 ELSE write_start_of(rs, width)
       IN  IF rs >= 0
           THEN /\ read_start' = rs
                /\ write_start' = ws
                /\ workers' = [c \in chunk_indexes(rs, width) |->
                                  [st |-> "todo", chunk_nodes |-> <<>>]]
                /\ pc' = "chunks"
                /\ UNCHANGED <<kind, data, api_vars, tree_vars, level, width,
                               level_node_index, proof>>
           ELSE /\ Panic
                /\ UNCHANGED <<kind, data, api_vars, tree_vars, build_vars, proof>>

\* The worker of chunk c, standing at from, reads its chunk with one
\* read_range and lets go of the source store.
worker_read(c, from) ==
    /\ pc = "chunks"
    /\ c \in DOMAIN workers
    /\ workers[c].st = from
    /\ LET read_store == IF level = 0 THEN leaves ELSE top_half
           n == chunk_len(c, read_start, width)
       IN  IF read_range_ok(read_store, c, c + n)
           THEN /\ workers' = [workers EXCEPT ![c] =
                       [st |-> "read", chunk_nodes |-> read_range(read_store, c, c + n)]]
                /\ UNCHANGED <<kind, data, api_vars, pc, tree_vars, level, width,
                               level_node_index, read_start, write_start, proof>>
           ELSE /\ Panic
                /\ UNCHANGED <<kind, data, api_vars, tree_vars, build_vars, proof>>

\* A worker reads its chunk, taking the read lock of the source store once.
ChunkRead(c) == worker_read(c, "todo")

\* The worker of chunk c, standing at from, writes the hashes of its pairs
\* with one write_range and lets go of top_half.
worker_write(c, from) ==
    /\ pc = "chunks"
    /\ c \in DOMAIN workers
    /\ workers[c].st = from
    /\ LET nodes == workers[c].chunk_nodes
           tmp == ElemsToBytes(hash_pairs(nodes, level))
           pos == write_pos(c, read_start, write_start)
       IN  IF /\ hash_pairs_ok(nodes)
              /\ Len(tmp) = (chunk_len(c, read_start, width) \div 2) * byte_len
              /\ write_range_ok(top_half, tmp, pos)
           THEN /\ top_half' = write_range(top_half, tmp, pos)
                /\ written' = [written EXCEPT
                                   !.top_half = mark(@, pos, Len(tmp) \div byte_len)]
                /\ workers' = [workers EXCEPT ![c] =
                                  [st |-> "done", chunk_nodes |-> <<>>]]
                /\ UNCHANGED <<kind, data, api_vars, pc, leaves, leafs, height, root,
                               level, width, level_node_index, read_start,
                               write_start, proof>>
           ELSE /\ Panic
                /\ UNCHANGED <<kind, data, api_vars, tree_vars, build_vars, proof>>

\* A worker hashes its pairs and writes them, taking the write lock of
\* top_half once.
ChunkWrite(c) == worker_write(c, "read")

\* A for_each that returns as soon as one worker is done.
for_each_returned_early(ws) == \E c \in DOMAIN ws : ws[c].st = "done"

\* par_chunks(1).for_each(..) returns when every worker has run to its end.
for_each_returned(ws) == \A c \in DOMAIN ws : ws[c].st = "done"

\* for_each has returned: every worker of the level is done.
Advance ==
    /\ pc = "chunks"
    /\ for_each_returned(workers)
    /\ level_node_index' = level_node_index + width
    /\ level' = level + 1
    /\ width' = Shr(width, 1)
    /\ workers' = <<>>
    /\ pc' = "loop"
    /\ UNCHANGED <<kind, data, api_vars, tree_vars, read_start, write_start,
                   proof>>

\* build after its loop: the height assertion, the root, the MerkleTree.
Finish ==
    /\ pc = "loop"
    /\ width <= 1
    /\ IF height = level + 1 /\ root_of_ok(top_half)
       THEN /\ root' = root_of(top_half)
            /\ pc' = "done"
            /\ UNCHANGED <<kind, data, api_vars, leaves, top_half, leafs,
                           height, written, build_vars, proof>>
       ELSE /\ Panic
            /\ UNCHANGED <<kind, data, api_vars, tree_vars, build_vars, proof>>

\* MerkleTree::gen_proof(i): the proof is kept as it stands before the two
\* debug assertions, which panic when a length is off.  Its reads reload
\* the stores they find offloaded.
GenProof(i) ==
    /\ pc = "done"
    /\ LET p == gen_proof(leaves, top_half, leafs, root, i)
       IN  /\ proof' = IF p.ok THEN [i |-> i, lemma |-> p.lemma, path |-> p.path]
                       ELSE proof
           /\ leaves' = p.lv
           /\ top_half' = p.th
           /\ pc' = IF /\ p.ok
                       /\ Len(p.lemma) = height + 1
                       /\ Len(p.path) = height - 1
                    THEN "done" ELSE "panic"
    /\ UNCHANGED <<kind, data, api_vars, leafs, height, root, written,
                   build_vars>>

Next ==
    \/ FromIter
    \/ Duplicate
    \/ Dispatch
    \/ \E c \in 0..(2 * MaxLeafs + 2) : ChunkRead(c)
    \/ \E c \in 0..(2 * MaxLeafs + 2) : ChunkWrite(c)
    \/ Advance
    \/ Finish
    \/ \E i \in 0..MaxLeafs : GenProof(i)

Spec == Init /\ [][Next]_vars

\* Trees wide enough for several workers at level 0 and at level 1.
WideInputs == {[i \in 1..n |-> i] : n \in 2..MaxWide}

InitChunks == InitOf(WideInputs)

NextChunks ==
    \/ FromIter
    \/ Duplicate
    \/ Dispatch
    \/ \E c \in 0..(2 * MaxWide) : ChunkRead(c)
    \/ \E c \in 0..(2 * MaxWide) : ChunkWrite(c)
    \/ Advance
    \/ Finish

SpecChunks == InitChunks /\ [][NextChunks]_vars

(***************************************************************************)
(* The locks of build.  leaves and top_half each sit behind a RwLock; a    *)
(* worker stands at "todo", "reading" (it holds the read guard of the      *)
(* store it reads), "read" (it hashes), "writing" (it holds the write      *)
(* guard of top_half) or "done".                                           *)
(***************************************************************************)
\* A read guard that lives until the worker's closure returns.
read_guards_until_return(ws) ==
    {c \in DOMAIN ws : ws[c].st \in {"reading", "read", "writing"}}

\* The workers that hold the read guard of the store they read: read_store
\* is a local of the block that computes chunk_nodes.
read_guards(ws) == {c \in DOMAIN ws : ws[c].st = "reading"}

\* The workers that hold the write guard of top_half: write_store lives
\* from its lock to the end of the closure.
write_guards(ws) == {c \in DOMAIN ws : ws[c].st = "writing"}

\* read_store_lock is a clone of top_half_lock at every level but the first.
reads_top_half(lvl) == lvl # 0

\* read_store_lock.read() can return: no write guard of that lock is out.
\* Nothing takes the write lock of leaves while the workers run.
read_lock_free(ws, lvl) == reads_top_half(lvl) => write_guards(ws) = {}

\* write_store_lock.write() can return: no guard of top_half is out.
write_lock_free(ws, lvl) ==
    /\ write_guards(ws) = {}
    /\ reads_top_half(lvl) => read_guards(ws) = {}

\* The store lock a worker reads under.
source_lock(lvl) == IF reads_top_half(lvl) THEN "top_half" ELSE "leaves"

\* The locks of its own a store takes inside read_range and write_range:
\* DiskMmapStore keeps its mapping behind self.store and takes that lock in
\* reload_store and again for the copy; the other stores take none.
own_locks(k) == IF k = "Disk" THEN {"mapping"} ELSE {}

\* The store locks the worker of chunk c holds.
held(ws, c, lvl) ==
    (IF c \in read_guards(ws) THEN {source_lock(lvl)} ELSE {})
        \cup (IF c \in write_guards(ws) THEN {"top_half"} ELSE {})

\* The locks the worker of chunk c asks for in its next step.
requests(ws, c, lvl, k) ==
    CASE ws[c].st = "todo" -> {source_lock(lvl)}
      [] ws[c].st = "reading" -> own_locks(k)
      [] ws[c].st = "read" -> {"top_half"}
      [] ws[c].st = "writing" -> own_locks(k)
      [] ws[c].st = "done" -> {}

\* read_store_lock.read().unwrap()
LockRead(c) ==
    /\ pc = "chunks"
    /\ c \in DOMAIN workers
    /\ workers[c].st = "todo"
    /\ read_lock_free(workers, level)
    /\ workers' = [workers EXCEPT ![c].st = "reading"]
    /\ UNCHANGED <<kind, data, api_vars, pc, tree_vars, level, width,
                   level_node_index, read_start, write_start, proof>>

\* read_range under the read guard, dropped at the end of the block.
ReadLocked(c) == worker_read(c, "reading")

\* write_store_lock.write().unwrap(), the pairs having been hashed.
LockWrite(c) ==
    /\ pc = "chunks"
    /\ c \in DOMAIN workers
    /\ workers[c].st = "read"
    /\ write_lock_free(workers, level)
    /\ workers' = [workers EXCEPT ![c].st = "writing"]
    /\ UNCHANGED <<kind, data, api_vars, pc, tree_vars, level, width,
                   level_node_index, read_start, write_start, proof>>

\* write_range under the write guard, dropped when the closure returns.
WriteLocked(c) == worker_write(c, "writing")

\* A step of one of the level's workers.
WorkerStep ==
    \E c \in 0..(2 * MaxWide) :
        LockRead(c) \/ ReadLocked(c) \/ LockWrite(c) \/ WriteLocked(c)

NextLocks ==
    \/ FromIter
    \/ Duplicate
    \/ Dispatch
    \/ \E c \in 0..(2 * MaxWide) : LockRead(c)
    \/ \E c \in 0..(2 * MaxWide) : ReadLocked(c)
    \/ \E c \in 0..(2 * MaxWide) : LockWrite(c)
    \/ \E c \in 0..(2 * MaxWide) : WriteLocked(c)
    \/ Advance
    \/ Finish

SpecLocks == InitChunks /\ [][NextLocks]_vars

\* The steps of build: those of the thread that called it and those of the
\* workers of the pool.
BuildStep ==
    \/ Duplicate
    \/ Dispatch
    \/ \E c \in 0..(2 * MaxWide) : ChunkRead(c)
    \/ \E c \in 0..(2 * MaxWide) : ChunkWrite(c)
    \/ Advance
    \/ Finish

\* The same build with a scheduler that runs whatever can run: once build
\* is entered, neither the thread that called it nor the workers of the
\* pool are held back for ever.
SpecChunksFair == SpecChunks /\ WF_vars(BuildStep)

\* MerkleTree::from_par_iter(into), up to the first iteration of build's
\* loop: the leaf hashes are collected in the order of the items and pushed
\* before the number of leaves is asserted.  next_pow2(0) underflows.
\* A collect that keeps the hashed items in the order the workers finish:
\* the last item first.
par_map_leaf_unordered(items) ==
    [k \in 1..Len(items) |-> leaf(items[Len(items) + 1 - k])]

\* iter.map(|item| a.leaf(item)).collect::<Vec<_>>(): each item is hashed by
\* some worker, the collected vector holds the hashes by item index.
par_map_leaf(items) == [k \in 1..Len(items) |-> leaf(items[k])]

\* for v in vs { leaves.push(v) }
RECURSIVE push_each_ok(_, _)
push_each_ok(s, vs) ==
    \/ vs = <<>>
    \/ /\ push_ok(s, Head(vs))
       /\ push_each_ok(push(s, Head(vs)), Tail(vs))

RECURSIVE push_each(_, _)
push_each(s, vs) ==
    IF vs = <<>> THEN s ELSE push_each(push(s, Head(vs)), Tail(vs))

FromParIter ==
    /\ pc = "start"
    /\ LET n == Len(data)
           pow == next_pow2(n)
       IN  IF /\ n >= 1
              /\ push_each_ok(Store_new(kind, pow), par_map_leaf(data))
              /\ enough_leafs(n)
           THEN /\ leaves' = push_each(Store_new(kind, pow), par_map_leaf(data))
                /\ top_half' = Store_new(kind, pow)
                /\ leafs' = n
                /\ height' = log2_pow2(2 * pow)
                /\ level' = 0
                /\ width' = n
                /\ level_node_index' = 0
                /\ pc' = "loop"
                /\ written' = [written EXCEPT !.leaves = mark(@, 0, n)]
                /\ UNCHANGED <<kind, data, api_vars, root, read_start,
                               write_start, workers, proof>>
           ELSE /\ Panic
                /\ UNCHANGED <<kind, data, api_vars, tree_vars, build_vars, proof>>

\* MerkleTree::new(data): from_iter(data).
New == from_iter(data)

\* x.hash(&mut a); a.hash(): the digest of a hashable object.
hash_object(x) == (x * 29 + 3) % Modulus

\* MerkleTree::from_data(data): from_iter over the digest of each object.
FromData == from_iter([k \in 1..Len(data) |-> hash_object(data[k])])

\* The size the caller of from_data_with_store gives the stores it
\* allocates: the one from_iter would give them.
AllocSize(n) == IF n >= 1 THEN next_pow2(n) ELSE 1

\* The stores handed to from_data_with_store as store for name: a
\* DiskMmapStore made by new, or by new_with_path over a file it creates.
DiskStores(name, size) ==
    {Store_new("Disk", size), new_with_path(size, name, <<>>)}

\* MerkleTree::from_data_with_store(into, leaves, top_half), up to the first
\* iteration of build's loop.
FromDataWithStore ==
    /\ pc = "start"
    /\ kind = "Disk"
    /\ \E lv \in DiskStores("leaves", AllocSize(Len(data))),
          th \in DiskStores("top_half", AllocSize(Len(data))) :
          LET n == Len(data)
          IN  IF enough_leafs(n) /\ push_leaves_ok(lv, data)
              THEN /\ leaves' = push_leaves(lv, data)
                   /\ top_half' = th
                   /\ leafs' = n
                   /\ height' = log2_pow2(2 * next_pow2(n))
                   /\ level' = 0
                   /\ width' = n
                   /\ level_node_index' = 0
                   /\ pc' = "loop"
                   /\ written' = [written EXCEPT !.leaves = mark(@, 0, n)]
                   /\ UNCHANGED <<kind, data, api_vars, root, read_start,
                                  write_start, workers, proof>>
              ELSE /\ Panic
                   /\ UNCHANGED <<kind, data, api_vars, tree_vars, build_vars,
                                  proof>>

\* Every constructor, followed by build.
\* The constructors that take the same sequence of elements.
NextSameItems ==
    \/ New
    \/ FromIter
    \/ FromParIter
    \/ FromDataWithStore
    \/ Duplicate
    \/ Dispatch
    \/ \E c \in 0..(2 * MaxLeafs + 2) : ChunkRead(c)
    \/ \E c \in 0..(2 * MaxLeafs + 2) : ChunkWrite(c)
    \/ Advance
    \/ Finish

SpecSameItems == Init /\ [][NextSameItems]_vars

NextConstructors ==
    \/ New
    \/ FromData
    \/ FromIter
    \/ FromParIter
    \/ FromByteSlice
    \/ FromDataWithStore
    \/ Duplicate
    \/ Dispatch
    \/ \E c \in 0..(2 * MaxLeafs + 2) : ChunkRead(c)
    \/ \E c \in 0..(2 * MaxLeafs + 2) : ChunkWrite(c)
    \/ Advance
    \/ Finish

SpecConstructors == Init /\ [][NextConstructors]_vars

\* MerkleTree::try_offload_store()
TryOffloadStore ==
    /\ pc = "done"
    /\ leaves' = try_offload_store(leaves, top_half).leaves
    /\ top_half' = try_offload_store(leaves, top_half).top_half
    /\ ret' = [op |-> "try_offload_store", arg |-> <<>>, ok |-> TRUE,
               val |-> <<try_offload_store_ret(leaves, top_half)>>]
    /\ UNCHANGED <<kind, data, pc, slice, self_store, threads, leafs, height,
                   root, written, build_vars, proof>>

\* MerkleTree::read_at(i); a panic ends the program with the stores as they
\* were.
TreeReadAt(i) ==
    /\ pc = "done"
    /\ \E overflow_checks \in BOOLEAN :
       IF /\ Tree_read_at_ok(leaves, top_half, i)
          /\ ~(overflow_checks /\ Tree_read_overflows(leaves, top_half, i))
       THEN /\ leaves' = Tree_after_read(leaves, top_half, i).leaves
            /\ top_half' = Tree_after_read(leaves, top_half, i).top_half
            /\ ret' = [op |-> "read_at", arg |-> <<i>>, ok |-> TRUE,
                       val |-> <<Tree_read_at(leaves, top_half, i)>>]
            /\ UNCHANGED pc
       ELSE /\ ret' = [op |-> "read_at", arg |-> <<i>>, ok |-> FALSE, val |-> <<>>]
            /\ Panic
            /\ UNCHANGED <<leaves, top_half>>
    /\ UNCHANGED <<kind, data, slice, self_store, threads, leafs, height, root,
                   written, build_vars, proof>>

\* MerkleTree::read_into(pos, buf)
TreeReadInto(i) ==
    /\ pc = "done"
    /\ \E overflow_checks \in BOOLEAN :
       IF /\ Tree_read_into_ok(leaves, top_half, i)
          /\ ~(overflow_checks /\ Tree_read_overflows(leaves, top_half, i))
       THEN /\ leaves' = Tree_after_read(leaves, top_half, i).leaves
            /\ top_half' = Tree_after_read(leaves, top_half, i).top_half
            /\ ret' = [op |-> "read_into", arg |-> <<i>>, ok |-> TRUE,
                       val |-> Tree_read_into(leaves, top_half, i)]
            /\ UNCHANGED pc
       ELSE /\ ret' = [op |-> "read_into", arg |-> <<i>>, ok |-> FALSE, val |-> <<>>]
            /\ Panic
            /\ UNCHANGED <<leaves, top_half>>
    /\ UNCHANGED <<kind, data, slice, self_store, threads, leafs, height, root,
                   written, build_vars, proof>>

\* MerkleTree::read_range(start, end), at indexes whose byte offsets fit a
\* usize.
TreeReadRange(start, end) ==
    /\ pc = "done"
    /\ IF Tree_read_range_ok(leaves, top_half, start, end)
       THEN /\ leaves' = Tree_after_read_range(leaves, top_half, start, end).leaves
            /\ top_half' = Tree_after_read_range(leaves, top_half, start, end).top_half
            /\ ret' = [op |-> "read_range", arg |-> <<start, end>>, ok |-> TRUE,
                       val |-> Tree_read_range(leaves, top_half, start, end)]
            /\ UNCHANGED pc
       ELSE /\ ret' = [op |-> "read_range", arg |-> <<start, end>>, ok |-> FALSE,
                       val |-> <<>>]
            /\ Panic
            /\ UNCHANGED <<leaves, top_half>>
    /\ UNCHANGED <<kind, data, slice, self_store, threads, leafs, height, root,
                   written, build_vars, proof>>

\* A tree built by from_iter and read with read_at, read_into and
\* read_range at its indexes and one past them.  A read leaves the tree as
\* it was, so each run makes a single read.
TreeLens == 0..(2 * MaxLeafs)

ReadAtOnce == ret = NoRet /\ \E i \in TreeLens : TreeReadAt(i)

ReadIntoOnce == ret = NoRet /\ \E i \in TreeLens : TreeReadInto(i)

ReadRangeOnce ==
    ret = NoRet /\ \E start \in TreeLens, end \in TreeLens : TreeReadRange(start, end)

NextTreeReads ==
    \/ FromIter
    \/ Duplicate
    \/ Dispatch
    \/ \E c \in 0..(2 * MaxLeafs + 2) : ChunkRead(c)
    \/ \E c \in 0..(2 * MaxLeafs + 2) : ChunkWrite(c)
    \/ Advance
    \/ Finish
    \/ ReadAtOnce
    \/ ReadIntoOnce
    \/ ReadRangeOnce

SpecTreeReads == Init /\ [][NextTreeReads]_vars

\* read_at at an index of the tree, or at the first index past its end.
ReadAtAnyIndex == \E i \in 0..Tree_len(leaves, top_half) : TreeReadAt(i)

\* A tree over two DiskMmapStores handed to from_data_with_store, each with
\* or without a path, offloaded and read again.
InitOffload == Init /\ kind = "Disk"

NextOffload ==
    \/ FromDataWithStore
    \/ Duplicate
    \/ Dispatch
    \/ \E c \in 0..(2 * MaxLeafs + 2) : ChunkRead(c)
    \/ \E c \in 0..(2 * MaxLeafs + 2) : ChunkWrite(c)
    \/ Advance
    \/ Finish
    \/ TryOffloadStore
    \/ ReadAtAnyIndex

SpecOffload == InitOffload /\ [][NextOffload]_vars

(***************************************************************************)
(* A store used on its own through the Store trait, by one thread: pc is   *)
(* "store" (no tree is constructed), self_store is the store, ret the last *)
(* call.  A call that panics ends the run with the store as the call left  *)
(* it.                                                                     *)
(***************************************************************************)
NoTree ==
    /\ data = <<>>
    /\ leaves = NoStore
    /\ top_half = NoStore
    /\ leafs = 0
    /\ height = 0
    /\ root = Default
    /\ level = 0
    /\ width = 0
    /\ level_node_index = 0
    /\ read_start = 0
    /\ write_start = 0
    /\ workers = <<>>
    /\ proof = NoProof
    /\ written = NoWrites
    /\ slice = <<>>

tree_state == <<kind, data, tree_vars, build_vars, proof, slice>>

\* The stores a caller can make: Store::new for each implementation, and
\* DiskMmapStore::new_with_path over a file it creates.
NewStores ==
    {Store_new(k, size) : k \in StoreKinds, size \in 1..MaxSize}
    \cup {new_with_path(size, "store", <<>>) : size \in 1..MaxSize}

InitStore ==
    /\ NoTree
    /\ self_store \in NewStores
    /\ kind = self_store.kind
    /\ pc = "store"
    /\ ret = NoRet
    /\ threads = <<>>

Failed(op, arg) == [op |-> op, arg |-> arg, ok |-> FALSE, val |-> <<>>]

Returned(op, arg, val) == [op |-> op, arg |-> arg, ok |-> TRUE, val |-> val]

\* Store::push(el)
StorePush(el) ==
    /\ pc = "store"
    /\ threads = <<>>
    /\ len(self_store) < MaxLen
    /\ IF push_ok(self_store, el)
       THEN /\ self_store' = push(self_store, el)
            /\ ret' = Returned("push", <<el>>, <<>>)
            /\ UNCHANGED pc
       ELSE /\ ret' = Failed("push", <<el>>)
            /\ Panic
            /\ UNCHANGED self_store
    /\ UNCHANGED <<tree_state, threads>>

\* Store::write_at(el, i)
StoreWriteAt(el, i) ==
    /\ pc = "store"
    /\ threads = <<>>
    /\ len(self_store) < MaxLen
    /\ IF write_at_ok(self_store, el, i)
       THEN /\ self_store' = write_at(self_store, el, i)
            /\ ret' = Returned("write_at", <<el, i>>, <<>>)
            /\ UNCHANGED pc
       ELSE /\ ret' = Failed("write_at", <<el, i>>)
            /\ Panic
            /\ self_store' = after_read(self_store)
    /\ UNCHANGED <<tree_state, threads>>

\* Store::write_range(buf, start), buf the bytes of els
StoreWriteRange(els, start) ==
    /\ pc = "store"
    /\ threads = <<>>
    /\ len(self_store) + Len(els) <= MaxLen
    /\ IF write_range_ok(self_store, ElemsToBytes(els), start)
       THEN /\ self_store' = write_range(self_store, ElemsToBytes(els), start)
            /\ ret' = Returned("write_range", <<els, start>>, <<>>)
            /\ UNCHANGED pc
       ELSE /\ ret' = Failed("write_range", <<els, start>>)
            /\ Panic
            /\ self_store' = after_read(self_store)
    /\ UNCHANGED <<tree_state, threads>>

\* The assertions of the mapped variants' reads: nothing is reloaded when
\* one of them fails.
read_asserts(s, lo, hi) ==
    s.kind = "Vec" \/ (/\ wrapping_mul(lo, byte_len) < wrapping_mul(s.len, byte_len)
                       /\ wrapping_mul(hi, byte_len) <= wrapping_mul(s.len, byte_len))

\* Store::read_at(i)
StoreReadAt(i) ==
    /\ pc = "store"
    /\ threads = <<>>
    /\ \E overflow_checks \in BOOLEAN :
       IF /\ read_at_ok(self_store, i)
          /\ ~(overflow_checks /\ read_overflows(self_store, i, i + 1))
       THEN /\ self_store' = after_read(self_store)
            /\ ret' = Returned("read_at", <<i>>, <<read_at(self_store, i)>>)
            /\ UNCHANGED pc
       ELSE /\ ret' = Failed("read_at", <<i>>)
            /\ Panic
            /\ self_store' = IF /\ read_asserts(self_store, i, i + 1)
                                /\ ~(overflow_checks
                                     /\ read_overflows(self_store, i, i + 1))
                             THEN after_read(self_store) ELSE self_store
    /\ UNCHANGED <<tree_state, threads>>

\* Store::read_into(i, buf)
StoreReadInto(i) ==
    /\ pc = "store"
    /\ threads = <<>>
    /\ \E overflow_checks \in BOOLEAN :
       IF /\ read_into_ok(self_store, i)
          /\ ~(overflow_checks /\ read_overflows(self_store, i, i + 1))
       THEN /\ self_store' = after_read(self_store)
            /\ ret' = Returned("read_into", <<i>>, read_into(self_store, i))
            /\ UNCHANGED pc
       ELSE /\ ret' = Failed("read_into", <<i>>)
            /\ Panic
            /\ self_store' = IF /\ read_asserts(self_store, i, i + 1)
                                /\ ~(overflow_checks
                                     /\ read_overflows(self_store, i, i + 1))
                             THEN after_read(self_store) ELSE self_store
    /\ UNCHANGED <<tree_state, threads>>

\* Store::read_range(lo..hi)
StoreReadRange(lo, hi) ==
    /\ pc = "store"
    /\ threads = <<>>
    /\ \E overflow_checks \in BOOLEAN :
       IF /\ read_range_ok(self_store, lo, hi)
          /\ ~(overflow_checks /\ read_overflows(self_store, lo, hi))
       THEN /\ self_store' = after_read(self_store)
            /\ ret' = Returned("read_range", <<lo, hi>>, read_range(self_store, lo, hi))
            /\ UNCHANGED pc
       ELSE /\ ret' = Failed("read_range", <<lo, hi>>)
            /\ Panic
            /\ self_store' = IF /\ read_asserts(self_store, lo, hi)
                                /\ ~(overflow_checks
                                     /\ read_overflows(self_store, lo, hi))
                             THEN after_read(self_store) ELSE self_store
    /\ UNCHANGED <<tree_state, threads>>

\* Store::try_offload()
StoreTryOffload ==
    /\ pc = "store"
    /\ threads = <<>>
    /\ self_store' = try_offload(self_store)
    /\ ret' = Returned("try_offload", <<>>, <<try_offload_ret(self_store)>>)
    /\ UNCHANGED <<tree_state, pc, threads>>

\* The first index whose byte offset does not fit a usize.
WrapIndex == usize_range \div byte_len

\* The indexes read: those of the store, the one past them, and the first
\* one whose offset overflows.
ReadIndexes == 0..(MaxLen + 1) \cup {WrapIndex}

NextStore ==
    \/ \E el \in 1..MaxItem : StorePush(el)
    \/ \E el \in 1..MaxItem, i \in 0..MaxLen : StoreWriteAt(el, i)
    \/ \E el \in 1..MaxItem, n \in 1..2, start \in 0..MaxLen :
           StoreWriteRange([k \in 1..n |-> el + k - 1], start)
    \/ \E i \in ReadIndexes : StoreReadAt(i)
    \/ \E i \in ReadIndexes : StoreReadInto(i)
    \/ \E lo \in 0..(MaxLen + 1), hi \in 0..(MaxLen + 1) \cup {WrapIndex + 1} :
           StoreReadRange(lo, hi)
    \/ StoreTryOffload

SpecStore == InitStore /\ [][NextStore]_vars

(***************************************************************************)
(* The reads of a store and of a built tree: either a single store is      *)
(* driven as above, or a tree is built with from_iter and read with        *)
(* read_at and read_into at its indexes, past them, and at indexes whose   *)
(* offsets overflow.                                                       *)
(***************************************************************************)
TreeIndexes == 0..(2 * MaxLeafs + 1) \cup {WrapIndex + k : k \in 0..(2 * MaxLeafs)}

InitReads == Init \/ InitStore

NextReads ==
    \/ NextStore
    \/ FromIter
    \/ Duplicate
    \/ Dispatch
    \/ \E c \in 0..(2 * MaxLeafs + 2) : ChunkRead(c)
    \/ \E c \in 0..(2 * MaxLeafs + 2) : ChunkWrite(c)
    \/ Advance
    \/ Finish
    \/ \E i \in TreeIndexes : TreeReadAt(i)
    \/ \E i \in TreeIndexes : TreeReadInto(i)

SpecReads == InitReads /\ [][NextReads]_vars

(***************************************************************************)
(* Byte buffers handed to the stores and to from_byte_slice: whole         *)
(* elements followed by up to MaxExtra bytes of a further element.         *)
(***************************************************************************)
Buffers ==
    {ElemsToBytes([k \in 1..n |-> el + k - 1]) \o SubSeq(as_ref(leaf(1)), 1, extra) :
        n \in 0..MaxSize, el \in 1..MaxItem, extra \in 0..MaxExtra}

\* K::new_from_slice(size, data): the store the call returns takes the place
\* of self_store.
StoreNewFromSlice(k, size, data_bytes) ==
    /\ pc = "store"
    /\ threads = <<>>
    /\ k = self_store.kind
    /\ IF new_from_slice_ok(k, size, data_bytes)
       THEN /\ self_store' = new_from_slice(k, size, data_bytes)
            /\ ret' = Returned("new_from_slice", <<data_bytes, size>>, <<>>)
            /\ UNCHANGED pc
       ELSE /\ ret' = Failed("new_from_slice", <<data_bytes, size>>)
            /\ Panic
            /\ UNCHANGED self_store
    /\ UNCHANGED <<tree_state, threads>>

\* Store::write_range(buf, start) with any byte buffer.
StoreWriteBytes(buf, start) ==
    /\ pc = "store"
    /\ threads = <<>>
    /\ len(self_store) < MaxLen
    /\ IF write_range_ok(self_store, buf, start)
       THEN /\ self_store' = write_range(self_store, buf, start)
            /\ ret' = Returned("write_range", <<buf, start>>, <<>>)
            /\ UNCHANGED pc
       ELSE /\ ret' = Failed("write_range", <<buf, start>>)
            /\ Panic
            /\ self_store' = after_read(self_store)
    /\ UNCHANGED <<tree_state, threads>>

InitSlices == Init \/ InitStore

NextSlices ==
    \/ \E k \in StoreKinds, size \in 1..MaxSize, b \in Buffers : StoreNewFromSlice(k, size, b)
    \/ \E b \in Buffers, start \in 0..1 : StoreWriteBytes(b, start)
    \/ FromByteSlice
    \/ Duplicate
    \/ Dispatch
    \/ \E c \in 0..(2 * MaxLeafs + 2) : ChunkRead(c)
    \/ \E c \in 0..(2 * MaxLeafs + 2) : ChunkWrite(c)
    \/ Advance
    \/ Finish

SpecSlices == InitSlices /\ [][NextSlices]_vars

(***************************************************************************)
(* A DiskMmapStore shared by threads.  The methods that take &self         *)
(* (read_at, read_into, read_range, store_copy_from_slice, try_offload)    *)
(* can run at the same time; each acquisition of the RwLock around the     *)
(* mapping is one step.  A thread is                                       *)
(*   "idle"     between two calls                                          *)
(*   "check"    in reload_store, before it reads is_none() under the read  *)
(*              lock                                                       *)
(*   "replace"  in reload_store, having found None, before it takes the    *)
(*              write lock to put a new mapping                            *)
(*   "access"   back from reload_store, before it takes the lock to match  *)
(*              on the mapping                                             *)
(* A panic of any thread ends the run (pc = "panic").                      *)
(***************************************************************************)
Threads == {"t1", "t2"}

Idle == [at |-> "idle", op |-> "", lo |-> 0, hi |-> 0, el |-> 0]

NotReloaded == "The store has not been reloaded"

\* A store created with a path and filled by its owner before it is shared.
SharedStores ==
    {push_leaves(new_with_path(Len(d), "store", <<>>), d) :
        d \in {e \in Inputs : Len(e) = 2}}

InitThreads ==
    /\ NoTree
    /\ kind = "Disk"
    /\ pc = "store"
    /\ ret = NoRet
    /\ self_store \in SharedStores
    /\ threads = [t \in Threads |-> Idle]

\* read_at(lo), read_into(lo) (hi = lo + 1) or read_range(lo..hi), up to the
\* call of reload_store: the two assertions on the range.
CallRead(t, op, lo, hi) ==
    /\ pc = "store"
    /\ threads[t].at = "idle"
    /\ IF lo * byte_len < self_store.len * byte_len
          /\ hi * byte_len <= self_store.len * byte_len
       THEN /\ threads' = [threads EXCEPT ![t] =
                   [at |-> "check", op |-> op, lo |-> lo, hi |-> hi, el |-> 0]]
            /\ UNCHANGED <<pc, ret>>
       ELSE /\ Panic
            /\ ret' = [op |-> op, arg |-> <<lo, hi>>, ok |-> FALSE, val |-> <<>>]
            /\ UNCHANGED threads
    /\ UNCHANGED <<tree_state, self_store>>

\* store_copy_from_slice(i * byte_len, (i + 1) * byte_len, el.as_ref()), up
\* to the call of reload_store.
CallWrite(t, i, el) ==
    /\ pc = "store"
    /\ threads[t].at = "idle"
    /\ threads' = [threads EXCEPT ![t] =
           [at |-> "check", op |-> "store_copy_from_slice", lo |-> i,
            hi |-> i + 1, el |-> el]]
    /\ UNCHANGED <<tree_state, pc, ret, self_store>>

\* try_offload(), whole: one acquisition of the write lock.
CallTryOffload(t) ==
    /\ pc = "store"
    /\ threads[t].at = "idle"
    /\ self_store' = try_offload(self_store)
    /\ ret' = [op |-> "try_offload", arg |-> <<>>, ok |-> TRUE,
               val |-> <<try_offload_ret(self_store)>>]
    /\ UNCHANGED <<tree_state, pc, threads>>

\* reload_store: need_to_reload_store = self.store.read().unwrap().is_none()
ReloadCheck(t) ==
    /\ pc = "store"
    /\ threads[t].at = "check"
    /\ threads' = [threads EXCEPT ![t].at =
           IF self_store.mapped THEN "access" ELSE "replace"]
    /\ UNCHANGED <<tree_state, pc, ret, self_store>>

\* reload_store: the new mapping replaces the store under the write lock.
ReloadReplace(t) ==
    /\ pc = "store"
    /\ threads[t].at = "replace"
    /\ IF self_store.size # NoSize /\ self_store.path # ""
       THEN /\ self_store' = replace_store(self_store)
            /\ threads' = [threads EXCEPT ![t].at = "access"]
            /\ UNCHANGED <<pc, ret>>
       ELSE /\ Panic
            /\ ret' = [op |-> threads[t].op, arg |-> <<threads[t].lo, threads[t].hi>>,
                       ok |-> FALSE, val |-> <<>>]
            /\ UNCHANGED <<self_store, threads>>
    /\ UNCHANGED tree_state

\* match *self.store.read() / write(): Some(mmap) is read or written, None
\* panics.
Access(t) ==
    /\ pc = "store"
    /\ threads[t].at = "access"
    /\ LET c == threads[t]
           start == c.lo * byte_len
           end == c.hi * byte_len
       IN  IF ~self_store.mapped
           THEN /\ Panic
                /\ ret' = [op |-> c.op, arg |-> <<c.lo, c.hi>>, ok |-> FALSE,
                           val |-> <<NotReloaded>>]
                /\ UNCHANGED <<self_store, threads>>
           ELSE IF c.op = "store_copy_from_slice"
           THEN IF copy_from_slice_ok(self_store.store, start, end, as_ref(c.el))
                THEN /\ self_store' = store_copy_from_slice(self_store, start, end,
                                                            as_ref(c.el))
                     /\ ret' = [op |-> c.op, arg |-> <<c.lo, c.hi>>, ok |-> TRUE,
                                val |-> <<>>]
                     /\ threads' = [threads EXCEPT ![t] = Idle]
                     /\ UNCHANGED pc
                ELSE /\ Panic
                     /\ ret' = [op |-> c.op, arg |-> <<c.lo, c.hi>>, ok |-> FALSE,
                                val |-> <<>>]
                     /\ UNCHANGED <<self_store, threads>>
           ELSE IF store_read_range_ok(self_store, start, end)
           THEN /\ ret' = [op |-> c.op, arg |-> <<c.lo, c.hi>>, ok |-> TRUE,
                           val |-> IF c.op = "read_into"
                                   THEN store_read_range(self_store, start, end)
                                   ELSE chunks_exact(
                                            store_read_range(self_store, start, end))]
                /\ threads' = [threads EXCEPT ![t] = Idle]
                /\ UNCHANGED <<pc, self_store>>
           ELSE /\ Panic
                /\ ret' = [op |-> c.op, arg |-> <<c.lo, c.hi>>, ok |-> FALSE,
                           val |-> <<>>]
                /\ UNCHANGED <<self_store, threads>>
    /\ UNCHANGED tree_state

\* The calls of a thread, over the written slots of the store.
CallReadAt(t) ==
    \E i \in 0..(self_store.len - 1) : CallRead(t, "read_at", i, i + 1)

CallReadInto(t) ==
    \E i \in 0..(self_store.len - 1) : CallRead(t, "read_into", i, i + 1)

CallReadRange(t) ==
    \E lo \in 0..(self_store.len - 1) :
        \E hi \in (lo + 1)..self_store.len : CallRead(t, "read_range", lo, hi)

CallWriteSlot(t) ==
    \E i \in 0..(self_store.len - 1) : CallWrite(t, i, MaxItem)

NextThreads ==
    \E t \in Threads :
        \/ CallReadAt(t)
        \/ CallReadInto(t)
        \/ CallReadRange(t)
        \/ CallWriteSlot(t)
        \/ CallTryOffload(t)
        \/ ReloadCheck(t)
        \/ ReloadReplace(t)
        \/ Access(t)

SpecThreads == InitThreads /\ [][NextThreads]_vars

\* The trees of from_iter and of from_byte_slice.
NextByteSlice ==
    \/ Next
    \/ FromByteSlice

SpecByteSlice == Init /\ [][NextByteSlice]_vars

(***************************************************************************)
(* build run by one thread, the chunks of a level taken from left to       *)
(* right: the same steps as the actions above, composed.  from_iter_seq is *)
(* the tree from_iter builds that way over a store of the given kind.      *)
(***************************************************************************)
RECURSIVE seq_chunks(_, _, _, _, _, _, _)
seq_chunks(lv, th, lvl, w, rs, ws, c) ==
    IF c >= rs + w THEN th
    ELSE LET n == chunk_len(c, rs, w)
             nodes == read_range(IF lvl = 0 THEN lv ELSE th, c, c + n)
             tmp == ElemsToBytes(hash_pairs(nodes, lvl))
         IN  seq_chunks(lv, write_range(th, tmp, write_pos(c, rs, ws)),
                        lvl, w, rs, ws, c + chunk_size)

RECURSIVE seq_build(_, _, _, _, _)
seq_build(lv, th, lvl, w, lni) ==
    IF w <= 1 THEN [leaves |-> lv, top_half |-> th, level |-> lvl]
    ELSE LET odd == w % 2 = 1
             lv1 == IF odd /\ lvl = 0 THEN duplicate_last(lv) ELSE lv
             th1 == IF odd /\ lvl # 0 THEN duplicate_last(th) ELSE th
             w1 == IF odd THEN w + 1 ELSE w
             rs == IF lvl = 0 THEN 0 ELSE lni - len(lv1)
             ws == IF lvl = 0 THEN 0 ELSE write_start_of(rs, w1)
         IN  seq_build(lv1, seq_chunks(lv1, th1, lvl, w1, rs, ws, rs),
                       lvl + 1, Shr(w1, 1), lni + w1)

from_iter_seq(k, items) ==
    LET pow == next_pow2(Len(items))
        t == seq_build(push_leaves(Store_new(k, pow), items), Store_new(k, pow),
                       0, Len(items), 0)
    IN  [leaves |-> t.leaves, top_half |-> t.top_half, leafs |-> Len(items),
         height |-> t.level + 1, root |-> root_of(t.top_half)]

(***************************************************************************)
(* The shape of a tree of n leaves, as the claims state it.                *)
(***************************************************************************)
IsPow2(n) == \E k \in 0..30 : n = Pow(2, k)

\* The least power of two that is at least n.
LeastPow2(n) == CHOOSE p \in {Pow(2, k) : k \in 0..30} : p >= n /\ p < 2 * n

\* log2 of a power of two.
Log2(m) == CHOOSE k \in 0..30 : Pow(2, k) = m

Even(w) == IF w % 2 = 1 THEN w + 1 ELSE w

\* The width level k is entered with: n nodes at level 0, then half of the
\* stored width of the level below.
RECURSIVE EnteredWidth(_, _)
EnteredWidth(n, k) == IF k = 0 THEN n ELSE Even(EnteredWidth(n, k - 1)) \div 2

\* The slots level k occupies: its entered width, made even unless it is
\* the root.
StoredWidth(n, k) ==
    IF EnteredWidth(n, k) > 1 THEN Even(EnteredWidth(n, k)) ELSE EnteredWidth(n, k)

\* The global index of the first node of level k.
RECURSIVE LevelBase(_, _)
LevelBase(n, k) == IF k = 0 THEN 0 ELSE LevelBase(n, k - 1) + StoredWidth(n, k - 1)

\* The stored node at position j of level k of the tree.
NodeAt_ok(k, j) == Tree_read_at_ok(leaves, top_half, LevelBase(leafs, k) + j)

NodeAt(k, j) == Tree_read_at(leaves, top_half, LevelBase(leafs, k) + j)

\* j xor 1: the position of the sibling of position j.
XorOne(j) == IF j % 2 = 0 THEN j + 1 ELSE j - 1

Built == pc = "done"

(***************************************************************************)
(* C1: every proof gen_proof(i) returns for a leaf i of a built tree       *)
(* validates: folding lemma[1..height-1] onto lemma[0] with node at child  *)
(* levels 0, 1, ..., the running hash on the left when the path bit is     *)
(* true, gives the last lemma element, which is root().                    *)
(***************************************************************************)
C1_ProofValidates ==
    /\ Built =>
          \A i \in 0..(leafs - 1) :
              LET p == gen_proof(leaves, top_half, leafs, root, i)
              IN  /\ p.ok
                  /\ validate(p.lemma, p.path)
                  /\ p.lemma[Len(p.lemma)] = root
    /\ proof.i >= 0 =>
          /\ validate(proof.lemma, proof.path)
          /\ proof.lemma[Len(proof.lemma)] = root

\* A proof of the last leaf of a five-leaf tree, whose levels 0 and 1 both
\* end in a duplicate, has been generated.
C1_Witness ==
    /\ Built
    /\ leafs = 5
    /\ proof.i = 4
    /\ data[1] # data[2]
    /\ validate(proof.lemma, proof.path)

C3_RootIsLastElement ==
    Built =>
        /\ Tree_len(leaves, top_half) >= 1
        /\ Tree_read_at_ok(leaves, top_half, Tree_len(leaves, top_half) - 1)
        /\ root = Tree_read_at(leaves, top_half, Tree_len(leaves, top_half) - 1)
        /\ read_at_ok(top_half, len(top_half) - 1)
        /\ root = read_at(top_half, len(top_half) - 1)

\* A DiskMmapStore tree of seven leaves is built.
C3_Witness ==
    /\ Built
    /\ kind = "Disk"
    /\ leafs = 7
    /\ root = NodeAt(height - 1, 0)

(***************************************************************************)
(* C4: for every leaf sequence of length n >= 2, the tree built over an    *)
(* MmapStore or a DiskMmapStore has the same root() as the tree built over *)
(* a VecStore from the same leaves (and the VecStore tree built by the     *)
(* workers in any order has the root of the one built left to right).      *)
(***************************************************************************)
C4_SameRootOnEveryStore ==
    Built => root = from_iter_seq("Vec", data).root

\* An MmapStore tree of five distinct leaves is built.
C4_Witness ==
    /\ Built
    /\ kind = "Mmap"
    /\ leafs = 5
    /\ data[1] # data[2]
    /\ root = from_iter_seq("Vec", data).root
    /\ root # Default

(***************************************************************************)
(* C5: a level entered with odd width w > 1 has a copy of its last node    *)
(* appended directly after it before any pair of the level is hashed: while*)
(* the workers of a level run, its width is even, the level occupies the   *)
(* slots read_start .. read_start + width - 1 of its store, the store ends *)
(* there as long as no worker has written, and the slots w - 1 and w of an *)
(* odd level hold equal nodes.  The copies stay in the built tree, and     *)
(* leaves.len() is n for even n and n + 1 for odd n.                       *)
(***************************************************************************)
C5_OddLevelGetsDuplicate ==
    /\ pc = "loop" /\ width > 1 /\ width % 2 = 1 => workers = <<>>
    /\ pc = "chunks" =>
          LET w0 == EnteredWidth(leafs, level)
              src == IF level = 0 THEN leaves ELSE top_half
          IN  /\ width = Even(w0)
              /\ read_start = IF level = 0 THEN 0
                              ELSE LevelBase(leafs, level) - len(leaves)
              /\ (\A c \in DOMAIN workers : workers[c].st = "todo")
                     => len(src) = read_start + width
              /\ w0 % 2 = 1 =>
                     /\ read_at_ok(src, read_start + w0)
                     /\ read_at(src, read_start + w0)
                            = read_at(src, read_start + w0 - 1)
    /\ Built =>
          /\ len(leaves) = Even(leafs)
          /\ Tree_len(leaves, top_half) = LevelBase(leafs, height - 1) + 1
          /\ \A k \in 0..(height - 2) :
                 LET w0 == EnteredWidth(leafs, k)
                 IN  w0 % 2 = 1 => /\ NodeAt_ok(k, w0)
                                   /\ NodeAt(k, w0) = NodeAt(k, w0 - 1)

\* The workers of level 1 of a tree of five distinct leaves are about to
\* run: level 0 was entered with width 5 and level 1 with width 3, and both
\* were given a copy of their last node.
C5_Witness ==
    /\ pc = "chunks"
    /\ leafs = 5
    /\ data[1] # data[2]
    /\ level = 1
    /\ width = 4
    /\ len(leaves) = 6
    /\ len(top_half) = 4
    /\ read_at(top_half, 3) = read_at(top_half, 2)
    /\ read_at(top_half, 2) # read_at(top_half, 1)

(***************************************************************************)
(* C6: when the leaf count n is a power of two (n >= 2) no level has odd   *)
(* width, so no node is duplicated, and len() = 2n - 1 after build.        *)
(***************************************************************************)
C6_PowerOfTwoTree ==
    IsPow2(leafs) =>
        /\ pc \in {"loop", "chunks"} => width = 1 \/ width % 2 = 0
        /\ pc \in {"loop", "chunks"} =>
              /\ len(leaves) = leafs
              /\ level >= 1 /\ pc = "loop" => len(top_half) = leafs - width
        /\ Built =>
              /\ len(leaves) = leafs
              /\ len(top_half) = leafs - 1
              /\ Tree_len(leaves, top_half) = 2 * leafs - 1

\* A tree of eight leaves is built, with 15 nodes.
C6_Witness ==
    /\ Built
    /\ leafs = 8
    /\ Tree_len(leaves, top_half) = 15

(***************************************************************************)
(* C7, as stated: when n is not a power of two, len() after build is       *)
(* smaller than 2p - 1, p = next_pow2(n).                                  *)
(***************************************************************************)
C7_Original ==
    Built /\ ~IsPow2(leafs) =>
        Tree_len(leaves, top_half) < 2 * LeastPow2(leafs) - 1

(***************************************************************************)
(* C7, amended: when n is not a power of two, len() after build is at most *)
(* 2p - 1; it is 2p - 1 when n = p - 1 (the copy of the last leaf fills    *)
(* the leaf level: n = 3 gives 7, n = 7 gives 15) and smaller otherwise.   *)
(***************************************************************************)
C7_LenAtMostFullTree ==
    Built /\ ~IsPow2(leafs) =>
        LET p == LeastPow2(leafs)
            l == Tree_len(leaves, top_half)
        IN  /\ l <= 2 * p - 1
            /\ l = 2 * p - 1 <=> leafs = p - 1

\* A tree of five leaves is built, with 13 nodes where the full tree has 15.
C7_Witness ==
    /\ Built
    /\ leafs = 5
    /\ Tree_len(leaves, top_half) = 13
    /\ LeastPow2(leafs) = 8

(***************************************************************************)
(* C8: for every n >= 2 the height handed to build is log2(2p), p the      *)
(* least power of two >= n; it is the level + 1 build asserts when its     *)
(* loop ends; and height() = log2_pow2(next_pow2(len())) after build.      *)
(***************************************************************************)
C8_Height ==
    /\ pc \in {"loop", "chunks", "done"} =>
          height = Log2(2 * LeastPow2(leafs))
    /\ pc = "loop" /\ width <= 1 => height = level + 1
    /\ Built => height = log2_pow2(next_pow2(Tree_len(leaves, top_half)))

\* A tree of six leaves is built: 13 nodes, height 4.
C8_Witness ==
    /\ Built
    /\ leafs = 6
    /\ height = 4
    /\ level = 3
    /\ Tree_len(leaves, top_half) = 13

(***************************************************************************)
(* C9: for every built tree and every i < leafs, gen_proof(i) returns a    *)
(* lemma of height + 1 elements and a path of height - 1 booleans (its two *)
(* debug assertions hold), lemma[0] is the leaf at index i and             *)
(* lemma[height] the cached root.                                          *)
(***************************************************************************)
C9_ProofLengths ==
    /\ Built =>
          \A i \in 0..(leafs - 1) :
              LET p == gen_proof(leaves, top_half, leafs, root, i)
              IN  /\ p.ok
                  /\ Len(p.lemma) = height + 1
                  /\ Len(p.path) = height - 1
                  /\ p.lemma[1] = leaf(data[i + 1])
                  /\ p.lemma[1] = read_at(leaves, i)
                  /\ p.lemma[height + 1] = root
    /\ proof.i >= 0 =>
          /\ Len(proof.lemma) = height + 1
          /\ Len(proof.path) = height - 1
          /\ proof.lemma[1] = leaf(data[proof.i + 1])
          /\ proof.lemma[height + 1] = root

\* The proof of the last leaf of a tree of seven leaves: five lemma
\* elements, three path bits.
C9_Witness ==
    /\ Built
    /\ leafs = 7
    /\ proof.i = 6
    /\ Len(proof.lemma) = 5
    /\ Len(proof.path) = 3

(***************************************************************************)
(* C10: for every i < leafs and every level k in 0..height-2, path[k] is   *)
(* true iff the ancestor of leaf i at level k, at position i >> k, is a    *)
(* left child (even position), and lemma[k + 1] is the stored node at      *)
(* position (i >> k) xor 1 of level k.  For n = 4, gen_proof(2) has lemma  *)
(* [leaf2, leaf3, node(leaf0, leaf1, 0), root] and path [true, false].     *)
(***************************************************************************)
C10_PathAndSiblings ==
    /\ Built =>
          \A i \in 0..(leafs - 1) :
              LET p == gen_proof(leaves, top_half, leafs, root, i)
              IN  /\ p.ok
                  /\ \A k \in 0..(height - 2) :
                         LET a == i \div Pow(2, k)
                         IN  /\ p.path[k + 1] = (a % 2 = 0)
                             /\ NodeAt_ok(k, XorOne(a))
                             /\ p.lemma[k + 2] = NodeAt(k, XorOne(a))
    /\ proof.i = 2 /\ leafs = 4 =>
          /\ proof.lemma = <<leaf(data[3]), leaf(data[4]),
                             node(leaf(data[1]), leaf(data[2]), 0), root>>
          /\ proof.path = <<TRUE, FALSE>>

\* gen_proof(2) has been called on a tree of four distinct leaves.
C10_Witness ==
    /\ Built
    /\ leafs = 4
    /\ data[1] # data[2]
    /\ proof.i = 2
    /\ proof.path = <<TRUE, FALSE>>
    /\ proof.lemma[3] = node(leaf(data[1]), leaf(data[2]), 0)

(***************************************************************************)
(* C11: after from_iter over a leaf sequence L of length n >= 2, for every *)
(* i in [0, n) read_at(i) is Algorithm.leaf applied to L[i]: the hashed    *)
(* leaves sit at the global indexes 0..n-1 in iteration order, from the    *)
(* moment build starts on.                                                 *)
(***************************************************************************)
C11_LeavesAreHashedItems ==
    pc \in {"loop", "chunks", "done"} =>
        \A i \in 0..(leafs - 1) :
            /\ i < len(leaves)
            /\ Tree_read_at_ok(leaves, top_half, i)
            /\ Tree_read_at(leaves, top_half, i) = leaf(data[i + 1])

\* An MmapStore tree of five distinct leaves is built: its first and its
\* fifth element are the hashes of the first and the fifth item.
C11_Witness ==
    /\ Built
    /\ kind = "Mmap"
    /\ leafs = 5
    /\ data[1] # data[5]
    /\ Tree_read_at(leaves, top_half, 0) = leaf(data[1])
    /\ Tree_read_at(leaves, top_half, 4) = leaf(data[5])
    /\ Tree_read_at(leaves, top_half, 0) # Tree_read_at(leaves, top_half, 4)

(***************************************************************************)
(* The tree a state holds against the tree the reference build gives over  *)
(* items: the same root, the same length and the same element at every     *)
(* index.                                                                  *)
(***************************************************************************)
SameTreeAs(items) ==
    LET t == from_iter_seq(kind, items)
    IN  /\ root = t.root
        /\ leafs = t.leafs
        /\ height = t.height
        /\ Tree_len(leaves, top_half) = Tree_len(t.leaves, t.top_half)
        /\ \A i \in 0..(Tree_len(leaves, top_half) - 1) :
               /\ Tree_read_at_ok(leaves, top_half, i)
               /\ Tree_read_at(leaves, top_half, i)
                      = Tree_read_at(t.leaves, t.top_half, i)

\* The tree was built by from_byte_slice over the bytes of els.
BuiltFromBytesOf(els) == Built /\ Len(els) >= 2 /\ slice = ElemsToBytes(els)

\* The tree was built by from_iter over data.
BuiltFromIter == Built /\ slice = <<>>

(***************************************************************************)
(* C12, as stated: for every leaf sequence L of length n >= 2, the tree    *)
(* from_byte_slice(concat(L)) has the root and the elements of the tree    *)
(* from_iter(L.map(leaf)).  (from_iter hashes each item it is given, so    *)
(* that tree is the reference build over L.map(leaf).)                     *)
(***************************************************************************)
C12_Original ==
    BuiltFromBytesOf(data) => SameTreeAs(Hashed(data))

(***************************************************************************)
(* C12, amended: from_byte_slice stores the elements of the slice as the   *)
(* leaves, unhashed, while from_iter hashes each item; so for every L of   *)
(* length n >= 2 the tree from_byte_slice(concat(L.map(leaf))) and the     *)
(* tree from_iter(L) have equal root() and equal elements at every index   *)
(* (both are the reference build over L, in every order of the workers).   *)
(***************************************************************************)
C12_ByteSliceOfHashedLeaves ==
    /\ BuiltFromBytesOf(Hashed(data)) => SameTreeAs(data)
    /\ BuiltFromIter => SameTreeAs(data)

\* A DiskMmapStore tree was built by from_byte_slice from the bytes of the
\* leaf hashes of five distinct items.
C12_Witness ==
    /\ BuiltFromBytesOf(Hashed(data))
    /\ kind = "Disk"
    /\ leafs = 5
    /\ data[1] # data[2]
    /\ Tree_read_at(leaves, top_half, 1) = leaf(data[2])
    /\ root = from_iter_seq("Vec", data).root

(***************************************************************************)
(* C13: for a tree over DiskMmapStores handed to from_data_with_store      *)
(* (created with a path, or without one), in every state after build,      *)
(* whatever try_offload_store() and read_at calls have been made: root()   *)
(* and len() are those of the reference build over the same items,         *)
(* read_at(i) succeeds for every i < len() and gen_proof(i) for every      *)
(* i < leafs, with the elements, lemma and path of the reference tree, and *)
(* a read leaves the store it read with its mapping loaded.  The values    *)
(* are therefore the same before and after any offload.                    *)
(***************************************************************************)
C13_OffloadKeepsValues ==
    Built =>
        LET t == from_iter_seq("Vec", data)
        IN  /\ root = t.root
            /\ Tree_len(leaves, top_half) = Tree_len(t.leaves, t.top_half)
            /\ \A i \in 0..(Tree_len(leaves, top_half) - 1) :
                   /\ Tree_read_at_ok(leaves, top_half, i)
                   /\ Tree_read_at(leaves, top_half, i)
                          = Tree_read_at(t.leaves, t.top_half, i)
                   /\ IF i < len(leaves)
                      THEN Tree_after_read(leaves, top_half, i).leaves.mapped
                      ELSE Tree_after_read(leaves, top_half, i).top_half.mapped
            /\ \A i \in 0..(leafs - 1) :
                   LET p == gen_proof(leaves, top_half, leafs, root, i)
                       q == gen_proof(t.leaves, t.top_half, t.leafs, t.root, i)
                   IN  /\ p.ok
                       /\ p.lemma = q.lemma
                       /\ p.path = q.path
                       /\ p.lv.mapped
            /\ ret.op = "read_at" =>
                   /\ ret.ok
                   /\ ret.val = <<Tree_read_at(t.leaves, t.top_half, ret.arg[1])>>

\* Both stores of a tree of five distinct leaves were created with a path
\* and offloaded; read_at(0) then reloaded the leaves and returned the hash
\* of the first item, while top_half is still offloaded.
C13_Witness ==
    /\ Built
    /\ leafs = 5
    /\ data[1] # data[2]
    /\ leaves.path # "" /\ top_half.path # ""
    /\ leaves.mapped
    /\ ~top_half.mapped
    /\ ret = [op |-> "read_at", arg |-> <<0>>, ok |-> TRUE, val |-> <<leaf(data[1])>>]

(***************************************************************************)
(* C15, as stated: try_offload_store() calls try_offload() on both inner   *)
(* stores whatever the first call returns: right after the call, each      *)
(* store that can be offloaded (a DiskMmapStore with a path) has its       *)
(* mapping released, also top_half when leaves cannot be offloaded.        *)
(***************************************************************************)
C15_BothStoresOffloaded ==
    ret.op = "try_offload_store" =>
        /\ try_offload_ret(leaves) => ~leaves.mapped
        /\ try_offload_ret(top_half) => ~top_half.mapped

(***************************************************************************)
(* C14, as stated: for a path-backed DiskMmapStore, under every            *)
(* interleaving of try_offload() with read_at / read_range / read_into /   *)
(* write operations on other threads, no operation finds the mapping       *)
(* absent after its reload check: no call ends in the 'The store has not   *)
(* been reloaded' panic.                                                   *)
(***************************************************************************)
C14_NeverFindsMappingAbsent ==
    ~ret.ok => ret.val # <<NotReloaded>>

(***************************************************************************)
(* C16: Store.try_offload returns true exactly when the store is offloaded *)
(* on return: VecStore, MmapStore and a DiskMmapStore created without a    *)
(* path return false and keep their data loaded; a DiskMmapStore created   *)
(* with new_with_path returns true and has no mapping afterwards.  In      *)
(* every reachable state a store whose mapping is absent has a non-empty   *)
(* path and a size, so reload_store can rebuild the mapping.               *)
(***************************************************************************)
C16_TryOffloadReturn ==
    /\ ret.op = "try_offload" =>
          /\ ret.val[1] <=> ~self_store.mapped
          /\ self_store.kind \in {"Vec", "Mmap"} \/ self_store.path = "" =>
                 /\ ret.val = <<FALSE>>
                 /\ self_store.mapped
                 /\ self_store.kind # "Vec" => self_store.store # <<>>
          /\ self_store.kind = "Disk" /\ self_store.path # "" =>
                 /\ ret.val = <<TRUE>>
                 /\ ~self_store.mapped
    /\ ~self_store.mapped =>
          /\ self_store.kind = "Disk"
          /\ self_store.path # ""
          /\ self_store.size # NoSize
          /\ reload_store_ok(self_store)
          /\ reload_store(self_store).mapped
          /\ reload_store(self_store).store = self_store.file

\* A DiskMmapStore created with new_with_path was given two elements and
\* then offloaded: try_offload returned true and the mapping is gone.
C16_Witness ==
    /\ pc = "store"
    /\ ret = Returned("try_offload", <<>>, <<TRUE>>)
    /\ self_store.path # ""
    /\ ~self_store.mapped
    /\ len(self_store) = 2
    /\ self_store.file = ElemsToBytes(<<1, 2>>)

\* Every slot below n has been written exactly once and no slot from n on
\* has been written.
WrittenOnce(counts, n) == counts = [k \in 1..n |-> 1]

(***************************************************************************)
(* C17: when the constructor returns, leaves.len() is the number of leaf   *)
(* and duplicated-leaf nodes written and top_half.len() the number of      *)
(* upper nodes written: each slot 0..len() of a store has been written     *)
(* exactly once and no slot at or past len() has been written.  While the  *)
(* tree is being built no slot is written twice.                           *)
(***************************************************************************)
C17_LenCountsWrittenSlots ==
    /\ Built => /\ WrittenOnce(written.leaves, len(leaves))
                /\ WrittenOnce(written.top_half, len(top_half))
    /\ \A k \in DOMAIN written.leaves : written.leaves[k] <= 1
    /\ \A k \in DOMAIN written.top_half : written.top_half[k] <= 1

\* A tree of eight leaves in mapped stores: two workers wrote the first
\* level of top_half, and every slot of both stores was written once.
C17_Witness ==
    /\ Built
    /\ kind = "Mmap"
    /\ leafs = 8
    /\ len(leaves) = 8
    /\ len(top_half) = 7
    /\ written.top_half = <<1, 1, 1, 1, 1, 1, 1>>

\* The slots of s below n, read where read_at returns.
Slots(s, n) == [k \in 0..(n - 1) |-> IF read_at_ok(s, k) THEN <<read_at(s, k)>> ELSE <<>>]

(***************************************************************************)
(* C18: len() counts the written slots of a store of any variant.  A       *)
(* write_at(e, i) with i < len() replaces slot i and leaves len() and the  *)
(* other slots unchanged, write_at(e, len()) grows len() by exactly 1, and *)
(* a write_range over slots already written leaves len() unchanged.        *)
(***************************************************************************)
C18_LenCountsWrittenSlots ==
    [][pc = "store" /\ ret'.ok =>
          LET n == len(self_store)
          IN  /\ ret'.op = "write_at" /\ ret'.arg[2] < n =>
                     /\ len(self_store') = n
                     /\ Slots(self_store', n) =
                            [Slots(self_store, n) EXCEPT ![ret'.arg[2]] = <<ret'.arg[1]>>]
              /\ ret'.op = "write_at" /\ ret'.arg[2] = n =>
                     len(self_store') = n + 1
              /\ ret'.op = "write_range" /\ ret'.arg[2] + Len(ret'.arg[1]) <= n =>
                     len(self_store') = n
      ]_vars

\* The number of elements a fixed-capacity store was created for.
capacity(s) ==
    IF s.kind = "Mmap" THEN Len(s.store) \div byte_len ELSE s.store_size \div byte_len

(***************************************************************************)
(* C19: on MmapStore and DiskMmapStore, push succeeds while len() is less  *)
(* than the capacity, stores the element at index len() and increases      *)
(* len() by 1, the slots below staying as they were; push when len()       *)
(* equals the capacity fails and leaves len() and the stored elements      *)
(* unchanged.                                                              *)
(***************************************************************************)
C19_PushWithinCapacity ==
    [][pc = "store" /\ ret'.op = "push" /\ self_store.kind # "Vec" =>
          LET n == len(self_store)
          IN  /\ n < capacity(self_store) =>
                     /\ ret'.ok
                     /\ len(self_store') = n + 1
                     /\ read_at_ok(self_store', n)
                     /\ read_at(self_store', n) = ret'.arg[1]
                     /\ Slots(self_store', n) = Slots(self_store, n)
              /\ n = capacity(self_store) =>
                     /\ ~ret'.ok
                     /\ len(self_store') = n
                     /\ self_store' = self_store
      ]_vars

\* A DiskMmapStore of capacity two took the elements 1 and 2, and the third
\* push failed with both still in place.
C19_Witness ==
    /\ pc = "panic"
    /\ ret = Failed("push", <<1>>)
    /\ self_store.kind = "Disk"
    /\ capacity(self_store) = 2
    /\ len(self_store) = 2
    /\ Slots(self_store, 2) = [k \in 0..1 |-> <<k + 1>>]

\* No tree has been built: the last call was a read of a single store at an index at or past len(),
\* or of a range ending past len().
StoreReadPastLen ==
    /\ leaves = NoStore
    /\ \/ ret.op \in {"read_at", "read_into"} /\ ret.arg[1] >= len(self_store)
       \/ ret.op = "read_range" /\ ret.arg[2] > len(self_store)

\* A tree has been built: the last call was MerkleTree::read_at or read_into at an index at or past
\* len().
TreeReadPastLen ==
    /\ leaves # NoStore
    /\ ret.op \in {"read_at", "read_into"}
    /\ ret.arg[1] >= Tree_len(leaves, top_half)

(***************************************************************************)
(* C20: on every store variant read_at(i) and read_into(i, buf) with       *)
(* i >= len(), and read_range(lo..hi) with hi > len(), fail, and           *)
(* MerkleTree::read_at(i) and read_into(i, buf) with i >= len() fail       *)
(* likewise: none of them returns.                                         *)
(***************************************************************************)
C20_ReadsPastLenFail == StoreReadPastLen \/ TreeReadPastLen => ~ret.ok

\* The same for the indexes whose byte offsets fit a usize: the reads past
\* len() all fail.
ReadsPastLenFailWithinUsize ==
    /\ StoreReadPastLen /\ ~read_overflows(self_store, 0, ret.arg[Len(ret.arg)] + 1)
          => ~ret.ok
    /\ TreeReadPastLen /\ ~Tree_read_overflows(leaves, top_half, ret.arg[1])
          => ~ret.ok

\* Reads past len() at offsets that fit a usize were made and failed.
ReadsPastLenWithinUsizeTried ==
    /\ TreeReadPastLen
    /\ ~Tree_read_overflows(leaves, top_half, ret.arg[1])
    /\ kind = "Mmap"
    /\ leafs = 4

\* The last call handed a store a buffer that is not a whole number of
\* elements.
UnalignedBufferGiven ==
    /\ ret.op \in {"new_from_slice", "write_range"}
    /\ Len(ret.arg[1]) % byte_len # 0

(***************************************************************************)
(* C21: on every store variant new_from_slice and write_range fail when    *)
(* the byte buffer is not a whole number of elements, and a tree is never  *)
(* under construction or built by from_byte_slice from such a slice.       *)
(***************************************************************************)
C21_UnalignedBufferRejected ==
    /\ UnalignedBufferGiven => ~ret.ok
    /\ pc \in {"loop", "chunks", "done"} => Len(slice) % byte_len = 0

\* The number of leaves handed to the constructor: the elements of the byte
\* slice of from_byte_slice, the items of every other constructor.
LeavesGiven == IF slice # <<>> THEN Len(slice) \div byte_len ELSE Len(data)

(***************************************************************************)
(* C22: a constructor given fewer than 2 leaves fails: build is never      *)
(* entered, and no tree is ever returned, with 0 or 1 leaves.              *)
(***************************************************************************)
C22_FewerThanTwoLeavesFail ==
    pc \in {"loop", "chunks", "done"} => LeavesGiven >= 2 /\ leafs >= 2

\* A constructor over mapped stores was handed a single item and panicked
\* without a tree.
C22_Witness ==
    /\ pc = "panic"
    /\ kind = "Mmap"
    /\ LeavesGiven = 1
    /\ leafs = 0
    /\ leaves = NoStore

\* The elements read_at returns at start, ..., end - 1.
ReadAtEach(start, end) ==
    [k \in 1..(end - start) |-> Tree_read_at(leaves, top_half, start + k - 1)]

\* The last call was read_range(start, end) with start <= end <= len().
RangeWithinTree ==
    /\ ret.op = "read_range"
    /\ ret.arg[1] <= ret.arg[2]
    /\ ret.arg[2] <= Tree_len(leaves, top_half)

\* read_into(pos, buf) with pos < len() has left in buf the bytes of
\* read_at(pos).
ReadIntoIsReadAt ==
    ret.op = "read_into" /\ ret.arg[1] < Tree_len(leaves, top_half) =>
        /\ ret.ok
        /\ ret.val = as_ref(Tree_read_at(leaves, top_half, ret.arg[1]))

(***************************************************************************)
(* C23: for every built tree and all 0 <= start <= end <= len(),           *)
(* read_range(start, end) returns the elements read_at returns at start,   *)
(* ..., end - 1, also when the range straddles leaves and top_half, and    *)
(* read_into(pos, buf) leaves in buf the bytes of read_at(pos) for every   *)
(* pos < len().                                                            *)
(***************************************************************************)
C23_ReadRangeIsReadAtEach ==
    /\ RangeWithinTree => ret.ok /\ ret.val = ReadAtEach(ret.arg[1], ret.arg[2])
    /\ ReadIntoIsReadAt

\* The same for the ranges that hold an element: they are all returned, as
\* read_at returns their elements, and an empty range is returned empty
\* when it is returned.
NonEmptyReadRangeIsReadAtEach ==
    /\ RangeWithinTree /\ ret.arg[1] < ret.arg[2] =>
          ret.ok /\ ret.val = ReadAtEach(ret.arg[1], ret.arg[2])
    /\ RangeWithinTree /\ ret.ok => ret.val = ReadAtEach(ret.arg[1], ret.arg[2])
    /\ ReadIntoIsReadAt

\* A range that straddles the two stores of a tree of five leaves (six with
\* the duplicate) in file-backed stores was read.
StraddlingRangeRead ==
    /\ pc = "done"
    /\ kind = "Disk"
    /\ leafs = 5
    /\ len(leaves) = 6
    /\ ret.op = "read_range"
    /\ ret.arg = <<4, 8>>
    /\ ret.ok
    /\ Len(ret.val) = 4

\* The slots of top_half the worker of chunk c writes.
WrittenBy(c) ==
    LET pos == write_pos(c, read_start, write_start)
    IN  pos..(pos + (chunk_len(c, read_start, width) \div 2) - 1)

(***************************************************************************)
(* C29: in whatever order the workers of a level read and write, build     *)
(* leaves the two stores (contents and len()) and the root that a          *)
(* left-to-right execution leaves.  While the workers of a level run,      *)
(* every chunk holds a positive even number of nodes, the workers write    *)
(* pairwise disjoint ranges that together are exactly the next level, and  *)
(* above the leaves the range written is disjoint from the range read.     *)
(***************************************************************************)
C29_AnyOrderSameTree ==
    /\ Built =>
          LET t == from_iter_seq(kind, data)
          IN  /\ leaves = t.leaves
              /\ top_half = t.top_half
              /\ len(leaves) = len(t.leaves)
              /\ len(top_half) = len(t.top_half)
              /\ root = t.root
              /\ height = t.height
    /\ pc = "chunks" =>
          LET next_level == write_start..(write_start + (width \div 2) - 1)
          IN  /\ DOMAIN workers = chunk_indexes(read_start, width)
              /\ \A c \in DOMAIN workers :
                    /\ chunk_len(c, read_start, width) > 0
                    /\ chunk_len(c, read_start, width) % 2 = 0
              /\ \A c, d \in DOMAIN workers :
                    c # d => WrittenBy(c) \cap WrittenBy(d) = {}
              /\ UNION {WrittenBy(c) : c \in DOMAIN workers} = next_level
              /\ level >= 1 =>
                    next_level \cap (read_start..(read_start + width - 1)) = {}

\* Level 1 of a tree of twelve leaves in mapped stores: the worker of the
\* second chunk has written its node before the worker of the first chunk
\* has read.
C29_Witness ==
    /\ pc = "chunks"
    /\ kind = "Mmap"
    /\ leafs = 12
    /\ level = 1
    /\ DOMAIN workers = {0, 4}
    /\ workers[0].st = "todo"
    /\ workers[4].st = "done"

\* The slots first .. first + n - 1 (0-based) of a store have been written,
\* each once.
AllWritten(counts, first, n) ==
    /\ Len(counts) >= first + n
    /\ \A k \in (first + 1)..(first + n) : counts[k] = 1

(***************************************************************************)
(* C30: build starts no chunk of a level, and does not duplicate the last  *)
(* node of a level of odd width, before every chunk of the level below has *)
(* completed its write.  At the head of the loop no worker is left and the *)
(* level about to be processed is written to its last node, the one a      *)
(* duplication copies; while the workers of a level run, every node they   *)
(* read has been written.                                                  *)
(***************************************************************************)
C30_LevelsInOrder ==
    /\ pc = "loop" =>
          /\ workers = <<>>
          /\ IF level = 0
             THEN AllWritten(written.leaves, 0, width)
                  /\ Len(written.leaves) = width
             ELSE AllWritten(written.top_half, level_node_index - len(leaves), width)
                  /\ Len(written.top_half) = level_node_index - len(leaves) + width
    /\ pc = "chunks" =>
          /\ workers # <<>>
          /\ AllWritten(IF level = 0 THEN written.leaves ELSE written.top_half,
                        read_start, width)

\* Level 2 of a tree of twelve leaves in file-backed stores: its worker has
\* read the four nodes of the level, the last of them the copy made by the
\* duplication.
C30_Witness ==
    /\ pc = "chunks"
    /\ kind = "Disk"
    /\ leafs = 12
    /\ level = 2
    /\ read_start = 6
    /\ width = 4
    /\ workers[6].st = "read"
    /\ workers[6].chunk_nodes[3] = workers[6].chunk_nodes[4]

(***************************************************************************)
(* Compaction and the level-cache store (specification sections 4.4 and    *)
(* 4.5).  A DiskStore built with a StoreConfig holds the whole tree in one *)
(* data file, level after level; compact rewrites the file to the base     *)
(* layer and the cached top levels, and a LevelCacheStore serves the       *)
(* rewritten file.  The cached levels are the ones the proof of section    *)
(* 4.5 draws from the store: with a partial tree over 2^(height - 1 - k)   *)
(* leaves the first sibling it does not hold is the one of level           *)
(* height - 1 - k, and from_data_store reads the root for every k.         *)
(***************************************************************************)
\* Greatest number of cached levels a StoreConfig is given.
MaxLevels == 3

DataVersions == {1, 2}

\* The compacted trees have a power of two of leaves.
PowInputs == {d \in Inputs : Len(d) >= 2 /\ IsPow2(Len(d))}

\* The nodes of a tree in the order the data file holds them: the base
\* layer, then level after level up to the root.
tree_nodes(lv, th) ==
    [i \in 1..Tree_len(lv, th) |-> Tree_read_at(lv, th, i - 1)]

\* A tree over one DiskStore, as from_iter_with_config leaves it.
DiskStore_of(nodes, n, h, rt) ==
    [kind |-> "Disk", file |-> nodes, base_file |-> <<>>, len |-> Len(nodes),
     leafs |-> n, height |-> h, root |-> rt, levels |-> 0, version |-> 0]

\* The index of the first node of level l in a tree of p leaves.
RECURSIVE level_offset(_, _)
level_offset(p, l) ==
    IF l = 0 THEN 0 ELSE level_offset(p, l - 1) + Shr(p, l - 1)

\* The lowest level above the base layer that k cached levels keep.
cache_level(p, k) ==
    LET h == log2_pow2(2 * p)
    IN  IF h - 1 - k > 1 THEN h - 1 - k ELSE 1

\* A cache that starts one level higher: the levels greater than
\* height - 1 - k only.
cache_start_above(p, k) ==
    LET h == log2_pow2(2 * p)
    IN  level_offset(p, IF h - k > 1 THEN h - k ELSE 1)

\* The index of the first cached node above the base layer.
cache_start(p, k) == level_offset(p, cache_level(p, k))

\* The data file compact writes: version 1 keeps the base layer in front
\* of the cached levels, version 2 keeps the cached levels only.
compacted_file(s, k, v) ==
    (IF v = 1 THEN SubSeq(s.file, 1, s.leafs) ELSE <<>>)
    \o SubSeq(s.file, cache_start(s.leafs, k) + 1, s.len)

\* A compact that is refused only when the file would grow.
compact_refused_growing(s, k, v) == Len(compacted_file(s, k, v)) > Len(s.file)

\* CompactionRefused: the rewritten file would not be smaller.
compact_refused(s, k, v) == Len(compacted_file(s, k, v)) >= Len(s.file)

\* compact(config, version) on a full store.
compact(s, k, v) ==
    IF compact_refused(s, k, v) THEN s
    ELSE [s EXCEPT !.file = compacted_file(s, k, v),
                   !.base_file = IF v = 2 THEN SubSeq(s.file, 1, s.leafs) ELSE <<>>,
                   !.levels = k,
                   !.version = v]

\* read_at(i) of the store under a tree: a full DiskStore holds every
\* index below len, a LevelCacheStore the base layer and the cached levels
\* (OutOfCachedRange otherwise).
store_read_ok(s, i) ==
    /\ i >= 0
    /\ i < s.len
    /\ s.version # 0 => (i < s.leafs \/ i >= cache_start(s.leafs, s.levels))

\* A LevelCacheStore read that takes the offset in the file without the
\* elided levels taken out.
store_read_unshifted(s, i) ==
    IF s.version = 0 THEN s.file[i + 1]
    ELSE IF i < s.leafs
         THEN (IF s.version = 2 THEN s.base_file[i + 1] ELSE s.file[i + 1])
         ELSE s.file[((i - s.leafs) % Len(s.file)) + 1]

\* The base layer of a version 2 store is read through the ExternalReader.
store_read(s, i) ==
    IF s.version = 0 THEN s.file[i + 1]
    ELSE IF i < s.leafs
         THEN (IF s.version = 2 THEN s.base_file[i + 1] ELSE s.file[i + 1])
         ELSE s.file[(IF s.version = 1 THEN s.leafs ELSE 0)
                     + (i - cache_start(s.leafs, s.levels)) + 1]

\* A segment half as wide: 2^(height - 2 - k) leaves.
segment_width_halved(p, k) ==
    LET h == log2_pow2(2 * p)
    IN  IF k >= h - 2 THEN 1 ELSE Pow(2, h - 2 - k)

\* The leaves of the segment a partial tree is built over.
segment_width(p, k) ==
    LET h == log2_pow2(2 * p)
    IN  IF k >= h - 1 THEN 1 ELSE Pow(2, h - 1 - k)

segment_start(i, sw) == (i \div sw) * sw

\* The transient partial tree over a segment of the base layer, built as
\* any tree is; a segment of one leaf is its own tree.
build_partial_tree(seg) ==
    IF Len(seg) < 2 THEN seg
    ELSE LET t == seq_build(new_from_slice("Vec", Len(seg), ElemsToBytes(seg)),
                            Store_new("Vec", Len(seg)), 0, Len(seg), 0)
         IN  tree_nodes(t.leaves, t.top_half)

\* The siblings of levels l .. height - 2 for leaf i: from the partial tree
\* t below the top of the segment, from the store above it.
RECURSIVE partial_proof_loop(_, _, _, _, _, _)
partial_proof_loop(s, i, sw, t, l, acc) ==
    IF ~acc.ok \/ l > s.height - 2 THEN acc
    ELSE LET j == Shr(i, l)
             sib == sibling_index(0, j)
             local == level_offset(sw, l) + sib - Shr(segment_start(i, sw), l)
             index == level_offset(s.leafs, l) + sib
         IN  IF Shr(sw, l) > 1
             THEN IF local + 1 \in DOMAIN t
                  THEN partial_proof_loop(s, i, sw, t, l + 1,
                           [acc EXCEPT !.lemma = Append(@, t[local + 1]),
                                       !.path = Append(@, is_left(j))])
                  ELSE [acc EXCEPT !.ok = FALSE]
             ELSE IF store_read_ok(s, index)
                  THEN partial_proof_loop(s, i, sw, t, l + 1,
                           [acc EXCEPT !.lemma = Append(@, store_read(s, index)),
                                       !.path = Append(@, is_left(j))])
                  ELSE [acc EXCEPT !.ok = FALSE]

\* gen_proof_with_partial_tree(i, k, t)
gen_proof_with_partial_tree(s, i, k, t) ==
    LET sw == segment_width(s.leafs, k)
        first == i - segment_start(i, sw) + 1
    IN  IF ~(i < s.leafs) \/ first \notin DOMAIN t
        THEN [ok |-> FALSE, lemma |-> <<>>, path |-> <<>>]
        ELSE LET acc == partial_proof_loop(s, i, sw, t, 0,
                            [ok |-> TRUE, lemma |-> <<t[first]>>, path |-> <<>>])
             IN  [acc EXCEPT !.lemma = IF acc.ok THEN Append(@, s.root) ELSE @]

\* The partial tree gen_proof_and_partial_tree(i, k) builds.
partial_tree_of(s, i, k) ==
    LET sw == segment_width(s.leafs, k)
        start == segment_start(i, sw)
    IN  build_partial_tree([n \in 1..sw |-> store_read(s, start + n - 1)])

\* gen_proof_and_partial_tree(i, k)
gen_proof_and_partial_tree(s, i, k) ==
    IF ~(i < s.leafs) THEN [ok |-> FALSE, lemma |-> <<>>, path |-> <<>>]
    ELSE gen_proof_with_partial_tree(s, i, k, partial_tree_of(s, i, k))

\* from_iter_with_config: the tree is built into one DiskStore.
FromIterWithConfig ==
    /\ pc = "start"
    /\ kind = "Disk"
    /\ IF enough_leafs(Len(data))
       THEN LET t == from_iter_seq(kind, data)
            IN  /\ leaves' = t.leaves
                /\ top_half' = t.top_half
                /\ leafs' = t.leafs
                /\ height' = t.height
                /\ root' = t.root
                /\ pc' = "done"
                /\ self_store' = DiskStore_of(tree_nodes(t.leaves, t.top_half),
                                              t.leafs, t.height, t.root)
                /\ ret' = [op |-> "from_iter_with_config", arg |-> <<>>,
                           ok |-> TRUE, val |-> <<>>]
                /\ UNCHANGED <<kind, data, slice, threads, written, build_vars, proof>>
       ELSE /\ Panic
            /\ UNCHANGED <<kind, data, api_vars, tree_vars, build_vars, proof>>

\* compact(config, version) with config.levels = k, on the full DiskStore.
Compact(k, v) ==
    /\ pc = "done"
    /\ self_store.kind = "Disk"
    /\ self_store.version = 0
    /\ self_store' = compact(self_store, k, v)
    /\ ret' = [op |-> "compact", arg |-> <<k, v>>,
               ok |-> ~compact_refused(self_store, k, v), val |-> <<>>]
    /\ UNCHANGED <<kind, data, pc, slice, threads, tree_vars, build_vars, proof>>

\* LevelCacheStore::new_from_disk(2 * leafs - 1, config) and
\* from_data_store(store, leafs): the tree re-created over the compacted
\* file; its root is the last element of the store.
NewFromDisk ==
    /\ pc = "done"
    /\ self_store.kind = "Disk"
    /\ self_store.version # 0
    /\ LET s == [self_store EXCEPT !.kind = "LevelCache", !.len = 2 * leafs - 1]
       IN  self_store' = [s EXCEPT !.root = IF store_read_ok(s, s.len - 1)
                                            THEN store_read(s, s.len - 1)
                                            ELSE Default]
    /\ ret' = [op |-> "from_data_store", arg |-> <<2 * leafs - 1, leafs>>,
               ok |-> store_read_ok(self_store, 2 * leafs - 2), val |-> <<>>]
    /\ UNCHANGED <<kind, data, pc, slice, threads, tree_vars, build_vars, proof>>

\* read_at(i) on the store under the tree.
CacheReadAt(i) ==
    /\ pc = "done"
    /\ self_store.kind = "LevelCache" \/ self_store.version = 0
    /\ ret' = IF store_read_ok(self_store, i)
              THEN [op |-> "read_at", arg |-> <<i>>, ok |-> TRUE,
                    val |-> <<store_read(self_store, i)>>]
              ELSE [op |-> "read_at", arg |-> <<i>>, ok |-> FALSE, val |-> <<>>]
    /\ UNCHANGED <<kind, data, pc, slice, threads, self_store, tree_vars,
                   build_vars, proof>>

\* gen_proof_and_partial_tree(i, k) on the tree over the store.
GenProofAndPartialTree(i, k) ==
    /\ pc = "done"
    /\ self_store.kind = "LevelCache" \/ self_store.version = 0
    /\ LET p == gen_proof_and_partial_tree(self_store, i, k)
       IN  /\ proof' = IF p.ok THEN [i |-> i, lemma |-> p.lemma, path |-> p.path]
                       ELSE NoProof
           /\ ret' = [op |-> "gen_proof_and_partial_tree", arg |-> <<i, k>>,
                      ok |-> p.ok,
                      val |-> IF p.ok THEN partial_tree_of(self_store, i, k)
                              ELSE <<>>]
    /\ UNCHANGED <<kind, data, pc, slice, threads, self_store, tree_vars,
                   build_vars>>

InitCompact == InitOf(PowInputs) /\ kind = "Disk"

\* The calls that leave the store and the tree as they are.
CacheReadOps == {"read_at", "gen_proof_and_partial_tree"}

\* One read or one proof after the calls that made the store.
CacheReadAtOnce ==
    /\ ret.op \notin CacheReadOps
    /\ \E i \in 0..(2 * MaxLeafs) : CacheReadAt(i)

GenProofAndPartialTreeOnce ==
    /\ ret.op \notin CacheReadOps
    /\ \E i \in 0..MaxLeafs, k \in 0..MaxLevels : GenProofAndPartialTree(i, k)

NextCompact ==
    \/ FromIterWithConfig
    \/ \E k \in 0..MaxLevels, v \in DataVersions : Compact(k, v)
    \/ NewFromDisk
    \/ CacheReadAtOnce
    \/ GenProofAndPartialTreeOnce

SpecCompact == InitCompact /\ [][NextCompact]_vars

\* The last call was gen_proof_and_partial_tree(i, k) for a leaf i of the
\* tree re-created over the compacted file, k being the cached levels the
\* file was compacted with.
ProofOverCompacted ==
    /\ ret.op = "gen_proof_and_partial_tree"
    /\ self_store.kind = "LevelCache"
    /\ ret.arg[1] < leafs
    /\ ret.arg[2] = self_store.levels

CacheReadDone ==
    /\ ret.op = "read_at"
    /\ self_store.kind = "LevelCache"
    /\ ret.arg[1] < Tree_len(leaves, top_half)

\* Index i lies at level l of the tree or above it.
AtLevelOrAbove(i, l) == i >= LevelBase(leafs, IF l > 0 THEN l ELSE 0)

\* The read returned the element the full store held at the index.
ReadRecovered ==
    /\ ret.ok
    /\ ret.val = <<Tree_read_at(leaves, top_half, ret.arg[1])>>

\* The read was rejected and returned no data.
ReadRejected == ~ret.ok /\ ret.val = <<>>

\* The re-created tree has the len() and the leafs() of the original one.
SameLenAndLeafs ==
    self_store.kind = "LevelCache" =>
        /\ self_store.len = Tree_len(leaves, top_half)
        /\ self_store.leafs = leafs

CachedNodes(k) ==
    Tree_len(leaves, top_half)
    - LevelBase(leafs, IF height - 1 - k > 1 THEN height - 1 - k ELSE 1)

MiddleNodes(k) == Tree_len(leaves, top_half) - leafs - CachedNodes(k)

\* The last call was a compact whose cached levels take more bytes than the
\* middle levels it would remove.
CompactNotWorthIt ==
    /\ ret.op = "compact"
    /\ byte_len * CachedNodes(ret.arg[1]) > byte_len * MiddleNodes(ret.arg[1])

\* The store is the full store of the tree, as it was built.
StoreAsBuilt ==
    self_store = DiskStore_of(tree_nodes(leaves, top_half), leafs, height, root)

(***************************************************************************)
(* C26 as stated: whatever the data version, a compact whose cached levels *)
(* would take more bytes than the middle levels to be removed is refused   *)
(* and leaves the file, len and every readable element of the store as     *)
(* they were.                                                              *)
(***************************************************************************)
C26_CompactRefusedUnchanged ==
    CompactNotWorthIt => ~ret.ok /\ StoreAsBuilt

(***************************************************************************)
(* C26 as amended: with data version 1, a compact whose cached levels      *)
(* would take more bytes than the middle levels to be removed is refused   *)
(* and leaves the store as it was, so that a compact with a smaller k      *)
(* finds the full store; every refused compact leaves the store as it was. *)
(***************************************************************************)
C26_VersionOneRefusedUnchanged ==
    /\ CompactNotWorthIt /\ ret.arg[2] = 1 => ~ret.ok
    /\ ret.op = "compact" /\ ~ret.ok => StoreAsBuilt

\* Eight leaves, version 1, two cached levels: every level above the base
\* layer would be kept, the call is refused and the file still holds the
\* fifteen nodes.
C26_Witness ==
    /\ CompactNotWorthIt
    /\ ret.arg = <<2, 1>>
    /\ ~ret.ok
    /\ leafs = 8
    /\ Len(self_store.file) = 15
    /\ ~compact_refused(self_store, 1, 1)

\* The last call was read_range(lo..hi) on the store with lo <= hi <= len().
RangeWithinStore ==
    /\ pc \in {"store", "panic"}
    /\ ret.op = "read_range"
    /\ ret.arg[1] <= ret.arg[2]
    /\ ret.arg[2] <= len(self_store)

(***************************************************************************)
(* C40: on every store variant read_range(lo..hi) with lo <= hi <= len()   *)
(* returns exactly the hi - lo elements at lo .. hi - 1, an empty vector   *)
(* when lo = hi, also when lo = hi = len(); the file-backed and the mapped *)
(* stores answer as VecStore does.                                         *)
(***************************************************************************)
C40_ReadRangeWithinLen ==
    RangeWithinStore =>
        /\ ret.ok
        /\ Len(ret.val) = ret.arg[2] - ret.arg[1]
        /\ \A k \in 1..Len(ret.val) :
              ret.val[k] = read_at(self_store, ret.arg[1] + k - 1)

\* VecStore alone returns every such range, the empty one at len() too.
VecReadRangeWithinLen == self_store.kind = "Vec" => C40_ReadRangeWithinLen

\* VecStore returned the empty range at its end.
VecEmptyRangeAtLen ==
    /\ RangeWithinStore
    /\ self_store.kind = "Vec"
    /\ ret.arg = <<2, 2>>
    /\ len(self_store) = 2
    /\ ret.ok

(***************************************************************************)
(* C39: new, from_iter, from_par_iter and from_data_with_store (with two   *)
(* empty stores of capacity next_pow2(n)) over the same n >= 2 items build *)
(* the same tree, the one the single-threaded build gives: same leafs,     *)
(* height, len, root and element at every index, the leaves in iteration   *)
(* order.                                                                  *)
(***************************************************************************)
C39_ConstructorsAgree ==
    Built => /\ SameTreeAs(data)
             /\ \A i \in 0..(leafs - 1) :
                    Tree_read_at(leaves, top_half, i) = leaf(data[i + 1])

\* from_data_with_store has built a tree of five distinct leaves into two
\* stores that were given their paths beforehand.
C39_Witness ==
    /\ Built
    /\ leafs = 5
    /\ data[1] # data[5]
    /\ leaves.path = "leaves"
    /\ top_half.path = "top_half"
    /\ Tree_len(leaves, top_half) = 13
    /\ SameTreeAs(data)

(***************************************************************************)
(* C38: a try_offload_store() that returns false has offloaded no inner    *)
(* store: leaves and top_half are each loaded or offloaded as they were    *)
(* before the call.                                                        *)
(***************************************************************************)
C38_FalseOffloadsNothing ==
    [][TryOffloadStore /\ ret'.val = <<FALSE>> =>
          /\ leaves'.mapped = leaves.mapped
          /\ top_half'.mapped = top_half.mapped]_vars

\* When the leaves store has no path the call returns false and leaves both
\* stores as they were.
FalseWithoutLeavesPathOffloadsNothing ==
    [][TryOffloadStore /\ leaves.path = "" =>
          /\ ret'.val = <<FALSE>>
          /\ leaves' = leaves
          /\ top_half' = top_half]_vars

(***************************************************************************)
(* The read side of a built tree: the getters, the reads, gen_proof and    *)
(* try_offload_store, in any sequence after any build.                     *)
(***************************************************************************)
\* Greatest number of leaves of the trees that are read in sequences.
MaxReadLeafs == 3

ReadSideInputs == {[i \in 1..n |-> i] : n \in 2..MaxReadLeafs}

Getters == {"root", "len", "is_empty", "height", "leafs"}

\* root(), len(), is_empty(), height(), leafs()
TreeGet(op) ==
    /\ pc = "done"
    /\ ret' = [op |-> op, arg |-> <<>>, ok |-> TRUE,
               val |-> <<CASE op = "root" -> root
                           [] op = "len" -> Tree_len(leaves, top_half)
                           [] op = "is_empty" -> is_empty(leaves) /\ is_empty(top_half)
                           [] op = "height" -> height
                           [] op = "leafs" -> leafs>>]
    /\ UNCHANGED <<kind, data, pc, slice, self_store, threads, tree_vars,
                   build_vars, proof>>

InitReadSide == InitOf(ReadSideInputs)

NextReadSide ==
    \/ FromIter
    \/ FromDataWithStore
    \/ Duplicate
    \/ Dispatch
    \/ \E c \in 0..(2 * MaxReadLeafs + 2) : ChunkRead(c)
    \/ \E c \in 0..(2 * MaxReadLeafs + 2) : ChunkWrite(c)
    \/ Advance
    \/ Finish
    \/ \E op \in Getters : TreeGet(op)
    \/ \E i \in 0..(2 * MaxReadLeafs) : TreeReadAt(i)
    \/ \E i \in 0..(2 * MaxReadLeafs) : TreeReadInto(i)
    \/ \E start \in 0..(2 * MaxReadLeafs), n \in 0..2 :
           TreeReadRange(start, start + n)
    \/ \E i \in 0..MaxReadLeafs : GenProof(i)
    \/ TryOffloadStore

SpecReadSide == InitReadSide /\ [][NextReadSide]_vars

\* The elements a tree holds, index by index, as read_at returns them.
Elements(lv, th) ==
    [i \in 0..(Tree_len(lv, th) - 1) |->
        IF Tree_read_at_ok(lv, th, i) THEN <<Tree_read_at(lv, th, i)>> ELSE <<>>]

(***************************************************************************)
(* C37: no step of build makes the len() of the leaves store or of the     *)
(* top_half store smaller, and no step taken after build has returned (a   *)
(* getter, read_at, read_range, read_into, gen_proof, try_offload_store,   *)
(* in any sequence) changes len(), leafs, height, root or the element at   *)
(* any index.                                                              *)
(***************************************************************************)
C37_FilledThenReadOnly ==
    [][/\ len(leaves') >= len(leaves)
       /\ len(top_half') >= len(top_half)
       /\ pc = "done" =>
             /\ Tree_len(leaves', top_half') = Tree_len(leaves, top_half)
             /\ len(leaves') = len(leaves)
             /\ leafs' = leafs
             /\ height' = height
             /\ root' = root
             /\ Elements(leaves', top_half') = Elements(leaves, top_half)
             /\ \A i \in DOMAIN Elements(leaves, top_half) :
                    Elements(leaves, top_half)[i] # <<>>]_vars

\* A tree of three leaves in path-backed stores has been offloaded, a proof
\* has reloaded the stores, and the tree was offloaded again: the stores are
\* unmapped, len() is 7 and the proof is the one of leaf 2.
C37_Witness ==
    /\ pc = "done"
    /\ leafs = 3
    /\ ret.op = "try_offload_store"
    /\ ret.val = <<TRUE>>
    /\ ~leaves.mapped
    /\ ~top_half.mapped
    /\ proof.i = 2
    /\ Tree_len(leaves, top_half) = 7

(***************************************************************************)
(* The loop of gen_proof, iteration by iteration.                          *)
(***************************************************************************)
\* The values of base, j and width each time gen_proof(i) evaluates its
\* loop condition: one entry per iteration entered, then the one it exits on.
ProofTrace(i) == gen_proof(leaves, top_half, leafs, root, i).trace

\* x & ~1
ClearLowBit(x) == x - (x % 2)

\* Every entry but the last passed the loop condition, the last did not,
\* and each entry follows from the one before by base += width, j >>= 1 and
\* the given width of the next level.
LoopSteps(tr, Width(_)) ==
    /\ Len(tr) >= 2
    /\ \A m \in 1..(Len(tr) - 1) :
           /\ tr[m].base + 1 < Tree_len(leaves, top_half)
           /\ tr[m + 1].base = tr[m].base + tr[m].width
           /\ tr[m + 1].j = Shr(tr[m].j, 1)
           /\ tr[m + 1].width = Width(tr[m].width)
    /\ tr[Len(tr)].base + 1 >= Tree_len(leaves, top_half)

\* The next width as ((width + 1) & ~1) >> 1.
RoundThenShift(w) == Shr(ClearLowBit(w + 1), 1)

\* The next width as ((width >> 1) + 1) & ~1.
ShiftThenRound(w) == ClearLowBit(Shr(w, 1) + 1)

\* C35 as stated: in gen_proof each iteration advances base by width,
\* halves j and sets the next width to ((width + 1) & ~1) >> 1 of the
\* current width, and the loop exits when base + 1 >= len().
C35_NextWidthRoundThenShift ==
    Built => \A i \in 0..(leafs - 1) : LoopSteps(ProofTrace(i), RoundThenShift)

\* C35, amended: in gen_proof each iteration advances base by width, halves
\* j and sets the next width to the current width shifted right by one and
\* then rounded up to even, ((width >> 1) + 1) & ~1; the loop exits when
\* base + 1 >= len().
C35_NextWidthShiftThenRound ==
    Built => \A i \in 0..(leafs - 1) : LoopSteps(ProofTrace(i), ShiftThenRound)

\* The proof of the last of six leaves has been generated: the loop saw the
\* widths 6, 4, 2 and left with base at the root.
C35_Witness ==
    /\ Built
    /\ leafs = 6
    /\ proof.i = 5
    /\ Len(proof.path) = 3
    /\ ProofTrace(5) = << [base |-> 0, j |-> 5, width |-> 6],
                          [base |-> 6, j |-> 2, width |-> 4],
                          [base |-> 10, j |-> 1, width |-> 2],
                          [base |-> 12, j |-> 0, width |-> 2] >>

\* C34: in gen_proof(i) with i < leafs, at the start of every loop iteration
\* base is the global index of the first stored node of the current level,
\* width is the stored (even) width of that level and j < width, so the
\* sibling index lies inside the same level and below len(), and no read of
\* gen_proof is out of bounds.
C34_ProofLoopInBounds ==
    Built =>
       \A i \in 0..(leafs - 1) :
           LET p == gen_proof(leaves, top_half, leafs, root, i)
           IN  /\ p.ok
               /\ Len(p.trace) = height
               /\ \A m \in 1..(Len(p.trace) - 1) :
                      LET s == p.trace[m]
                          sib == sibling_index(s.base, s.j)
                      IN  /\ s.base = LevelBase(leafs, m - 1)
                          /\ s.width = StoredWidth(leafs, m - 1)
                          /\ s.width % 2 = 0
                          /\ s.j < s.width
                          /\ s.base <= sib
                          /\ sib < s.base + s.width
                          /\ sib < Tree_len(leaves, top_half)

\* The proof of the last of five leaves has been generated: at level 1 the
\* loop stood at node 2 of a level stored four wide from index 6, and took
\* the duplicated node at index 9 as the sibling.
C34_Witness ==
    /\ Built
    /\ leafs = 5
    /\ proof.i = 4
    /\ ProofTrace(4)[2] = [base |-> 6, j |-> 2, width |-> 4]
    /\ proof.lemma[3] = Tree_read_at(leaves, top_half, 9)
    /\ Tree_len(leaves, top_half) = 13

(***************************************************************************)
(* The slots build writes.                                                 *)
(***************************************************************************)
\* C33: for n >= 2, with both stores allocated for p = next_pow2(n)
\* elements, no push and no write_range of build is refused and none
\* addresses a slot at index >= p in either store, the duplicated nodes
\* included; top_half ends with at most p - 1 elements.
C33_WritesBelowCapacity ==
    LET p == next_pow2(Len(data))
    IN  Len(data) >= 2 =>
           /\ pc # "panic"
           /\ Len(written.leaves) <= p
           /\ Len(written.top_half) <= p
           /\ Built => /\ len(top_half) <= p - 1
                       /\ Len(written.top_half) = len(top_half)
                       /\ Len(written.leaves) = len(leaves)

\* A tree of five leaves in mapped stores allocated for eight: the leaves
\* and the duplicate of the last one took slots 0 to 5, the three levels
\* above, one duplicate included, slots 0 to 6 of top_half.
C33_Witness ==
    /\ Built
    /\ kind = "Mmap"
    /\ leafs = 5
    /\ next_pow2(leafs) = 8
    /\ written.leaves = <<1, 1, 1, 1, 1, 1>>
    /\ written.top_half = <<1, 1, 1, 1, 1, 1, 1>>
    /\ len(top_half) = 7

(***************************************************************************)
(* The end of build.                                                       *)
(***************************************************************************)
\* ceil(log2(n))
CeilLog2(n) == Log2(LeastPow2(n))

\* The clones of the two handles are locals of one iteration of the loop
\* and of its workers: none is left once the level's workers are gone.
UniquelyOwned == workers = <<>>

\* C32: for every n >= 2 build, once entered, terminates.  Each iteration
\* leaves a width smaller than the one it was entered with, after exactly
\* ceil(log2(n)) iterations the width is 1, the assertion
\* height == level + 1 holds (build does not panic) and no clone of a handle
\* is left, so that the tree is made.
C32_BuildTerminates ==
    /\ [](pc # "panic")
    /\ [][pc = "chunks" /\ pc' = "loop" =>
             /\ level' = level + 1
             /\ width' < EnteredWidth(leafs, level)
             /\ width' < width
             /\ width' >= 1
             /\ (width' = 1) = (level' = CeilLog2(leafs))]_vars
    /\ [](Built => /\ leafs = Len(data)
                   /\ width = 1
                   /\ level = CeilLog2(leafs)
                   /\ height = level + 1
                   /\ UniquelyOwned)
    /\ (pc = "loop" /\ level = 0) ~> Built

\* Eleven leaves have been built into a tree: four iterations, with the
\* widths 11, 6, 3 and 2, and a height of five.
C32_Witness ==
    /\ Built
    /\ leafs = 11
    /\ level = 4
    /\ height = 5
    /\ width = 1
    /\ workers = <<>>
    /\ Tree_len(leaves, top_half) = 12 + 6 + 4 + 2 + 1

(***************************************************************************)
(* The lock discipline of build.                                           *)
(***************************************************************************)
\* How far a worker has come.
Rank(st) ==
    CASE st = "todo" -> 0
      [] st = "reading" -> 1
      [] st = "read" -> 2
      [] st = "writing" -> 3
      [] st = "done" -> 4

\* The two locks build makes, one around each store.
StoreLocks == {"leaves", "top_half"}

\* A worker that asks for the lock of a store holds none, a worker that
\* hashes has let go of the store it read, no worker holds two guards, and
\* the guards out are ones a RwLock hands out together.
OneStoreLockAtATime ==
    /\ \A c \in DOMAIN workers :
           /\ requests(workers, c, level, kind) \cap StoreLocks # {} =>
                  held(workers, c, level) = {}
           /\ workers[c].st = "read" => held(workers, c, level) = {}
           /\ Cardinality(held(workers, c, level)) <= 1
           /\ c \notin read_guards(workers) \cap write_guards(workers)
    /\ Cardinality(write_guards(workers)) <= 1
    /\ reads_top_half(level) /\ write_guards(workers) # {} =>
           read_guards(workers) = {}

\* C31 as stated: no worker asks for a lock while it holds another one.
C31_NoLockRequestedUnderGuard ==
    pc = "chunks" =>
       \A c \in DOMAIN workers :
           held(workers, c, level) # {} =>
               requests(workers, c, level, kind) = {}

\* C31, amended: in build each worker takes the read lock of the store it
\* reads once, for one read_range of its whole chunk, lets go of it before
\* it hashes, and then takes the write lock of top_half once, for one
\* write_range; no worker and no step of build asks for the lock of leaves
\* or of top_half while it holds one of them, at the levels where both are
\* top_half's included, so that as long as a worker is not done some worker
\* can take a step.  The one lock asked for under a guard is the mapping
\* lock a DiskMmapStore takes inside read_range and write_range.
C31_NoStoreLockHeldWhileLocking ==
    /\ [](pc # "panic")
    /\ [](pc = "chunks" =>
             /\ OneStoreLockAtATime
             /\ \A c \in DOMAIN workers :
                    held(workers, c, level) # {} =>
                        requests(workers, c, level, kind) = own_locks(kind)
             /\ for_each_returned(workers) \/ ENABLED WorkerStep)
    /\ [](pc # "chunks" => workers = <<>>)
    /\ [][pc = "chunks" /\ pc' = "chunks" =>
             \A c \in DOMAIN workers :
                 /\ Rank(workers'[c].st) >= Rank(workers[c].st)
                 /\ Rank(workers'[c].st) <= Rank(workers[c].st) + 1
                 /\ workers'[c].st = "read" =>
                        Len(workers'[c].chunk_nodes)
                            = chunk_len(c, read_start, width)
                 /\ workers'[c].st = "done" /\ workers[c].st # "done" =>
                        written'.top_half # written.top_half]_vars

\* At level 1 of a tree of twelve leaves in DiskMmapStores, where the
\* workers read and write top_half: the worker of the second chunk holds the
\* write guard and is about to take the mapping lock, while the worker of the
\* first, which has read its chunk, waits for the write lock.
C31_Witness ==
    /\ pc = "chunks"
    /\ kind = "Disk"
    /\ leafs = 12
    /\ level = 1
    /\ DOMAIN workers = {0, 4}
    /\ workers[0].st = "read"
    /\ workers[4].st = "writing"
    /\ ~write_lock_free(workers, level)
    /\ held(workers, 4, level) = {"top_half"}
    /\ requests(workers, 4, level, kind) = {"mapping"}
    /\ held(workers, 0, level) = {}

(***************************************************************************)
(* The two sources of the siblings of a proof over a compacted store.      *)
(***************************************************************************)
\* height - 1 - k for the proof just made, not below the base layer.
SegmentLevel ==
    IF height - 1 - ret.arg[2] > 0 THEN height - 1 - ret.arg[2] ELSE 0

\* The sibling of level l in the proof of leaf i is the node of the partial
\* tree returned, built over the 2^(height - 1 - k) leaves around i, that
\* stands where the sibling stands in the segment.
FromPartialTree(i, l) ==
    LET sw == Pow(2, SegmentLevel)
        start == (i \div sw) * sw
        sib == XorOne(i \div Pow(2, l))
        first == start \div Pow(2, l)
        local == LevelBase(sw, l) + (sib - first)
    IN  /\ Len(ret.val) = 2 * sw - 1
        /\ sib >= first
        /\ sib < first + (sw \div Pow(2, l))
        /\ proof.lemma[l + 2] = ret.val[local + 1]
        /\ proof.lemma[l + 2] = NodeAt(l, sib)

\* The sibling of level l in the proof of leaf i is read from the store,
\* in the base layer, which every compaction keeps, or at a level from
\* lowest on.
FromCachedLevels(i, l, lowest) ==
    LET index == LevelBase(leafs, l) + XorOne(i \div Pow(2, l))
    IN  /\ index < leafs \/ AtLevelOrAbove(index, lowest)
        /\ store_read_ok(self_store, index)
        /\ proof.lemma[l + 2] = store_read(self_store, index)
        /\ proof.lemma[l + 2] = NodeAt(l, XorOne(i \div Pow(2, l)))

\* Every sibling of the proof comes from the partial tree below the level
\* of the segment's top and from the levels of the store from lowest on
\* otherwise.
SiblingsFromTwoSources(lowest) ==
    ProofOverCompacted =>
       /\ ret.ok
       /\ Len(proof.lemma) = height + 1
       /\ \A l \in 0..(height - 2) :
              IF l < SegmentLevel
              THEN FromPartialTree(ret.arg[1], l)
              ELSE FromCachedLevels(ret.arg[1], l, lowest)

=============================================================================
